---- MODULE Spec2Model ----
(***************************************************************************)
(* A state-machine model of the CatieCli credential pool, quota / rate     *)
(* limiter and dispatch path (backend/app).                                *)
(*                                                                         *)
(* The relational store is modelled at row level: users, credentials and   *)
(* usage logs are the shared state; every handler step between two points  *)
(* where the handler has committed is one action.  Model names are kept as *)
(* strings in the state and are rendered to their characters (ModelChars)  *)
(* wherever the code inspects their text.                                  *)
(***************************************************************************)
EXTENDS Integers, Sequences, FiniteSets, TLC

\* ------------------------------------------------------------------ bounds

\* Number of credential rows the store may hold at once.
MaxCreds == 3
\* Credential-pool runs: management calls and requests admitted.
PoolOps == 2
PoolRequests == 1
\* Potluck runs: management calls and requests admitted.
PotluckOps == 3
PotluckRequests == 1
\* Credential-management runs: management calls and requests admitted.
CredsOps == 2
CredsRequests == 1
\* Quota runs: management calls, requests admitted and clock advances.
QuotaOps == 1
QuotaRequests == 3
QuotaTicks == 2
\* No-credential cap runs: management calls and requests admitted.
GroupOps == 2
GroupRequests == 2
\* Donation toggling runs: management calls admitted.
ToggleOps == 4
\* Dispatch runs: uploads and requests admitted.
DispatchOps == 3
DispatchRequests == 1
\* Streaming runs: uploads and requests admitted.
StreamOps == 2
StreamRequests == 2
\* API key runs: key calls admitted, and POST /api-keys calls in flight.
KeyOps == 5
MaxKeyCalls == 2
\* Selection runs: uploads, requests admitted and clock advances.
SelectOps == 3
SelectRequests == 2
SelectTicks == 1
\* Round-robin runs: uploads, requests admitted and clock advances.
RobinOps == 3
RobinRequests == 3
RobinTicks == 4
\* Failure-handling runs: uploads and requests admitted.
FailureOps == 2
FailureRequests == 2
\* Selection-write runs: uploads, requests admitted and clock advances.
WritesOps == 2
WritesRequests == 2
WritesTicks == 1
\* Rejection runs: uploads and requests admitted.
RejectOps == 1
RejectRequests == 3
\* Re-tiering runs: management calls and requests admitted.
TierOps == 2
TierRequests == 2
\* Debit runs: owner calls and requests admitted.
DebitOps == 3
DebitRequests == 1
MaxChunks == 2
ChunkOps == 2
ChunkRequests == 1
VerifyOps == 3
RaceOps == 2
RaceRequests == 2

\* ------------------------------------------------------------------ text

\* The model ids clients send.
Models == {"gemini-2.5-flash", "gemini-2.5-pro", "gemini-3-pro-preview",
           "gemini-3-flash-preview", "GEMINI-2.5-PRO"}

\* The characters of a model id.
ModelChars(m) ==
    CASE m = "gemini-2.5-flash" ->
           <<"g","e","m","i","n","i","-","2",".","5","-","f","l","a","s","h">>
      [] m = "gemini-2.5-pro" ->
           <<"g","e","m","i","n","i","-","2",".","5","-","p","r","o">>
      [] m = "gemini-3-pro-preview" ->
           <<"g","e","m","i","n","i","-","3","-","p","r","o","-",
             "p","r","e","v","i","e","w">>
      [] m = "gemini-3-flash-preview" ->
           <<"g","e","m","i","n","i","-","3","-","f","l","a","s","h","-",
             "p","r","e","v","i","e","w">>
      [] m = "GEMINI-2.5-PRO" ->
           <<"G","E","M","I","N","I","-","2",".","5","-","P","R","O">>
      [] m = "openai" -> <<"o","p","e","n","a","i">>

\* str.lower() on one character (the letters the model ids use).
LowerChar(c) ==
    CASE c = "G" -> "g" [] c = "E" -> "e" [] c = "M" -> "m" [] c = "I" -> "i"
      [] c = "N" -> "n" [] c = "P" -> "p" [] c = "R" -> "r" [] c = "O" -> "o"
      [] OTHER -> c

\* str.lower()
Lower(s) == [i \in 1..Len(s) |-> LowerChar(s[i])]

\* Python's  sub in s  on character sequences.
Contains(s, sub) ==
    \E i \in 0..(Len(s) - Len(sub)) :
        \A j \in 1..Len(sub) : s[i + j] = sub[j]

Gemini3Marker == <<"g","e","m","i","n","i","-","3","-">>
ProMarker == <<"p","r","o">>
ThreeMarker == <<"3">>

\* SQL  col LIKE '%pat%'  (SQLite: case-insensitive for ASCII letters).
Like(s, pat) == Contains(Lower(s), Lower(pat))

GetRequiredTierAlwaysLow(model) == "2.5"

\* CredentialPool.get_required_tier
GetRequiredTier(model) ==
    IF Contains(Lower(ModelChars(model)), Gemini3Marker) THEN "3" ELSE "2.5"

\* CredentialPool.get_model_group
GetModelGroup(model) ==
    IF Contains(Lower(ModelChars(model)), Gemini3Marker) THEN "30"
    ELSE IF Contains(Lower(ModelChars(model)), ProMarker) THEN "pro"
    ELSE "flash"

\* ------------------------------------------------------------- error text

\* Error texts an upstream call, a token refresh or a verification produces.
ErrorTexts == {"API Error 403: PERMISSION_DENIED",
               "API Error 401: Unauthorized",
               "API Error 503: UNAVAILABLE",
               "API Error 429: RESOURCE_EXHAUSTED",
               "API Error 400: INVALID_ARGUMENT",
               "API Error 500: backend 403",
               "ReadTimeout"}

\* The HTTP status an upstream error text reports (0: no response at all).
StatusOf(text) ==
    CASE text = "API Error 403: PERMISSION_DENIED" -> 403
      [] text = "API Error 401: Unauthorized" -> 401
      [] text = "API Error 503: UNAVAILABLE" -> 503
      [] text = "API Error 429: RESOURCE_EXHAUSTED" -> 429
      [] text = "API Error 400: INVALID_ARGUMENT" -> 400
      [] text = "API Error 500: backend 403" -> 500
      [] OTHER -> 0

\* The texts the code itself writes; their non-ASCII words are spelled in
\* pinyin: "Token shuaxin shibai" (token refresh failed), "wufa huoqu access
\* token" (cannot get access token), "renzheng shibai" (authentication
\* failed), "API fanhui" (API returned), "pei'e yi yongjin" (quota used up).
TokenRefreshFailed == "Token shuaxin shibai"
NoAccessToken == "wufa huoqu access token"

\* The marker substrings a text contains (the substrings the code tests for;
\* "renzheng" and "wuxiao" are the two Chinese markers update_my_credential
\* looks for).
Markers(text) ==
    CASE text = "API Error 403: PERMISSION_DENIED" -> {"403", "PERMISSION_DENIED"}
      [] text = "API Error 401: Unauthorized" -> {"401"}
      [] text = "API Error 503: UNAVAILABLE" -> {"503"}
      [] text = "API Error 429: RESOURCE_EXHAUSTED" -> {"429", "RESOURCE_EXHAUSTED"}
      [] text = "API Error 400: INVALID_ARGUMENT" -> {"400"}
      [] text = "API Error 500: backend 403" -> {"500", "403"}
      [] text = "renzheng shibai (401)" -> {"renzheng", "401"}
      [] text = "renzheng shibai (403)" -> {"renzheng", "403"}
      [] text = "API fanhui 500" -> {"500"}
      [] text = "pei'e yi yongjin (429)" -> {"429"}
      [] OTHER -> {}

\* Python's  marker in text
TextHas(text, marker) == marker \in Markers(text)

\* ------------------------------------------------------------------ state

UserIds == {1, 2}
\* The one administrator account.
AdminId == 2
CredIds == 1..MaxCreds
ReqIds == {1}
KeyCallIds == 1..MaxKeyCalls
\* The chat requests that may be in flight together, each in its own
\* database session.
CallIds == {1, 2}

NULL == -1

VARIABLES
    settings,   \* app.config.settings (the tunables the core reads)
    users,      \* users table: id -> row
    creds,      \* credentials table: id -> row (present = FALSE: no such row)
    logs,       \* usage_logs table, in insertion order
    now,        \* datetime.utcnow(), in seconds
    reqs,       \* in-flight inference requests: slot -> request
    ev,         \* the step taken last (what it decided / returned)
    budget,     \* steps still allowed, per kind (bounds the run)
    api_keys,   \* api_keys table: the set of rows
    key_calls,  \* in-flight POST /api-keys calls: slot -> call
    calls       \* chat requests in flight together, statement by statement

vars ==
    <<settings, users, creds, logs, now, reqs, ev, budget, api_keys, key_calls,
      calls>>

NoCred ==
    [present |-> FALSE, user_id |-> 0, email |-> "", refresh_token |-> "",
     project_id |-> "", model_tier |-> "2.5", is_public |-> FALSE,
     is_active |-> FALSE, total_requests |-> 0, failed_requests |-> 0,
     last_used_at |-> NULL, last_used_flash |-> NULL, last_used_pro |-> NULL,
     last_used_30 |-> NULL, last_error |-> ""]

IdleReq ==
    [pc |-> "idle", user_id |-> 0, model |-> "", endpoint |-> "",
     user_has_public |-> FALSE, tried |-> {}, credential |-> 0,
     retry_attempt |-> 0, last_error |-> "", stream |-> FALSE,
     stream_retry |-> 0, new_credential |-> 0, chunks |-> <<>>]

\* A chat request that has not started: its place in chat_completions, the
\* arguments of its pool calls, the credential object its session holds
\* (loaded_total: the total_requests attribute of that object) and what its
\* failure handler read (seen_public, seen_tier, seen_owner, seen_bonus).
IdleCall ==
    [pc |-> "idle", user_id |-> 0, model |-> "", user_has_public |-> FALSE,
     tried |-> {}, retry_attempt |-> 0, credential |-> 0, loaded_total |-> 0,
     selected_at |-> NULL, last_error |-> "", seen_public |-> FALSE,
     seen_tier |-> "2.5", seen_owner |-> 0, seen_bonus |-> 0]

\* What an owner's donation call found before it acted (otherwise unset).
NoBefore == [daily_quota |-> 0, bonus_quota |-> 0, is_public |-> FALSE]

NoEv ==
    [op |-> "none", req |-> 0, user_id |-> 0, cred |-> 0, model |-> "",
     status |-> 0, detail |-> "", before |-> NoBefore, error |-> ""]

\* What a step did: the handler, the request slot (0: not a proxy request),
\* the acting user, the credential it returned or acted on, the model, the
\* HTTP status it answered with (0: none yet) and the reason; a failed
\* attempt also records the error text it met.
Ev(op, r, u, c, m, st, d) ==
    [op |-> op, req |-> r, user_id |-> u, cred |-> c, model |-> m,
     status |-> st, detail |-> d, before |-> NoBefore, error |-> ""]

\* Seconds in a day, and 07:00:00 as seconds after midnight.
DaySeconds == 86400
ResetSecond == 25200

\* ------------------------------------------------------- credential pool

Present == {c \in CredIds : creds[c].present}

CheckUserHasTier3CredsAlways(user_id) == TRUE

\* CredentialPool.check_user_has_tier3_creds
CheckUserHasTier3Creds(user_id) ==
    \E c \in Present : /\ creds[c].user_id = user_id
                       /\ creds[c].model_tier = "3"
                       /\ creds[c].is_active

\* CredentialPool.check_user_has_public_creds
CheckUserHasPublicCreds(user_id) ==
    \E c \in Present : /\ creds[c].user_id = user_id
                       /\ creds[c].is_public
                       /\ creds[c].is_active

\* CredentialPool.get_cd_seconds
GetCdSeconds(model_group) ==
    IF model_group = "30" THEN settings.cd_30
    ELSE IF model_group = "pro" THEN settings.cd_pro
    ELSE settings.cd_flash

\* The last_used_* column of a model group.
LastUsedOfGroup(cred, model_group) ==
    IF model_group = "30" THEN cred.last_used_30
    ELSE IF model_group = "pro" THEN cred.last_used_pro
    ELSE cred.last_used_flash

\* CredentialPool.is_credential_in_cd
IsCredentialInCd(cred, model_group) ==
    IF GetCdSeconds(model_group) <= 0 THEN FALSE
    ELSE IF LastUsedOfGroup(cred, model_group) = NULL THEN FALSE
    ELSE now < LastUsedOfGroup(cred, model_group) + GetCdSeconds(model_group)

ModeAllowsShared(cred, user_id, user_has_public_creds, required_tier) ==
    cred.is_public \/ cred.user_id = user_id

\* The sharing-mode part of get_available_credential's WHERE clause.
ModeAllows(cred, user_id, user_has_public_creds, required_tier) ==
    LET own == cred.user_id = user_id
        shared == cred.is_public \/ own
    IN  IF settings.credential_pool_mode = "private" THEN own
        ELSE IF settings.credential_pool_mode = "tier3_shared" THEN
            IF required_tier = "3"
            THEN IF CheckUserHasTier3Creds(user_id) THEN shared ELSE own
            ELSE shared
        ELSE \* full_shared
            IF user_has_public_creds THEN shared ELSE own

TierAllowsAny(cred, required_tier) == TRUE

\* The tier part of the WHERE clause.
TierAllows(cred, required_tier) ==
    required_tier = "3" => cred.model_tier = "3"

CandidatesAnyProject(user_id, user_has_public_creds, model, exclude_ids) ==
    {c \in Present :
        /\ creds[c].is_active
        /\ c \notin exclude_ids
        /\ TierAllows(creds[c], GetRequiredTier(model))
        /\ ModeAllows(creds[c], user_id, user_has_public_creds,
                      GetRequiredTier(model))}

\* The rows get_available_credential's query returns.
Candidates(user_id, user_has_public_creds, model, exclude_ids) ==
    {c \in Present :
        /\ creds[c].is_active
        /\ creds[c].project_id # ""
        /\ c \notin exclude_ids
        /\ TierAllows(creds[c], GetRequiredTier(model))
        /\ ModeAllows(creds[c], user_id, user_has_public_creds,
                      GetRequiredTier(model))}

\* ORDER BY last_used_at ASC NULLS FIRST: the rows that may come first (the
\* order among rows with equal last_used_at is the engine's).
FirstOf(S) == {c \in S : \A d \in S : creds[c].last_used_at <= creds[d].last_used_at}

SelectableIgnoringExclude(user_id, user_has_public_creds, model, exclude_ids) ==
    LET all == Candidates(user_id, user_has_public_creds, model, {})
        available == {c \in all :
                        ~IsCredentialInCd(creds[c], GetModelGroup(model))}
    IN  IF available = {} THEN FirstOf(all) ELSE FirstOf(available)

SelectableNoFallback(user_id, user_has_public_creds, model, exclude_ids) ==
    LET all == Candidates(user_id, user_has_public_creds, model, exclude_ids)
        available == {c \in all :
                        ~IsCredentialInCd(creds[c], GetModelGroup(model))}
    IN  FirstOf(available)

\* The credentials get_available_credential may return (empty: None).
Selectable(user_id, user_has_public_creds, model, exclude_ids) ==
    LET all == Candidates(user_id, user_has_public_creds, model, exclude_ids)
        available == {c \in all :
                        ~IsCredentialInCd(creds[c], GetModelGroup(model))}
    IN  IF available = {} THEN FirstOf(all) ELSE FirstOf(available)

MarkUsedEveryGroup(cred, model) ==
    [cred EXCEPT !.last_used_at = now, !.total_requests = @ + 1,
                 !.last_used_flash = now, !.last_used_pro = now,
                 !.last_used_30 = now]

\* The row update get_available_credential commits for the returned row.
MarkUsed(cred, model) ==
    LET g == GetModelGroup(model)
        base == [cred EXCEPT !.last_used_at = now,
                             !.total_requests = @ + 1]
    IN  IF g = "30" THEN [base EXCEPT !.last_used_30 = now]
        ELSE IF g = "pro" THEN [base EXCEPT !.last_used_pro = now]
        ELSE [base EXCEPT !.last_used_flash = now]

\* The donation reward of a tier as the pool's failure handler computes it.
PoolReward(model_tier) ==
    IF model_tier = "3"
    THEN settings.quota_flash + settings.quota_25pro + settings.quota_30pro
    ELSE settings.quota_flash + settings.quota_25pro

Max(a, b) == IF a >= b THEN a ELSE b

\* CredentialPool.mark_credential_error: the credentials table afterwards.
MarkCredentialError(cs, credential_id, error) ==
    IF cs[credential_id].present
    THEN [cs EXCEPT ![credential_id].failed_requests = @ + 1,
                    ![credential_id].last_error = error]
    ELSE cs

IsAuthError(error) ==
    TextHas(error, "401") \/ TextHas(error, "403")
        \/ TextHas(error, "PERMISSION_DENIED")

HandleCredentialFailureAnyError(credential_id, error) ==
    LET cs == MarkCredentialError(creds, credential_id, error)
        cred == cs[credential_id]
    IN  IF cred.present /\ cred.is_active
        THEN <<[cs EXCEPT ![credential_id].is_active = FALSE],
               IF cred.is_public /\ cred.user_id # 0
               THEN [users EXCEPT ![cred.user_id].bonus_quota =
                        Max(0, @ - PoolReward(cred.model_tier))]
               ELSE users>>
        ELSE <<cs, users>>

\* CredentialPool.handle_credential_failure: <<credentials, users>> afterwards.
HandleCredentialFailure(credential_id, error) ==
    LET cs == MarkCredentialError(creds, credential_id, error)
        cred == cs[credential_id]
    IN  IF IsAuthError(error) /\ cred.present /\ cred.is_active
        THEN <<[cs EXCEPT ![credential_id].is_active = FALSE],
               IF cred.is_public /\ cred.user_id # 0
               THEN [users EXCEPT ![cred.user_id].bonus_quota =
                        Max(0, @ - PoolReward(cred.model_tier))]
               ELSE users>>
        ELSE <<cs, users>>

\* ------------------------------------------------------ quota and rate

StartOfDayLate(t) ==
    LET reset_time_utc == (t \div DaySeconds) * DaySeconds + ResetSecond
    IN  IF t <= reset_time_utc THEN reset_time_utc - DaySeconds
        ELSE reset_time_utc

\* get_user_from_api_key: the start of the quota day containing t.
StartOfDay(t) ==
    LET reset_time_utc == (t \div DaySeconds) * DaySeconds + ResetSecond
    IN  IF t < reset_time_utc THEN reset_time_utc - DaySeconds
        ELSE reset_time_utc

\* FROM usage_logs WHERE user_id = ... AND created_at >= since
LogsOf(user_id, since) ==
    {i \in DOMAIN logs : /\ logs[i].user_id = user_id
                         /\ logs[i].created_at >= since}

\* get_user_from_api_key: whether the user owns an active credential.
HasCredential(user_id) ==
    \E c \in Present : creds[c].user_id = user_id /\ creds[c].is_active

\* get_user_from_api_key: the day's usage counted against daily_quota.
TotalUsage(user_id) ==
    Cardinality(LogsOf(user_id, StartOfDay(now)))

\* get_user_from_api_key: the branch taken for a user without credentials
\* ("pro" in model  is tested on the model id as sent).
NoCredBranch(model) ==
    IF GetRequiredTier(model) = "3" THEN "30pro"
    ELSE IF Contains(ModelChars(model), ProMarker) THEN "25pro"
    ELSE "flash"

\* get_user_from_api_key: quota_limit of a user without credentials.
NoCredQuotaLimit(model) ==
    IF NoCredBranch(model) = "30pro" THEN settings.no_cred_quota_30pro
    ELSE IF NoCredBranch(model) = "25pro" THEN settings.no_cred_quota_25pro
    ELSE settings.no_cred_quota_flash

\* get_user_from_api_key: the usage counted against quota_limit.
NoCredUsage(user_id, model) ==
    Cardinality({i \in LogsOf(user_id, StartOfDay(now)) :
        IF NoCredBranch(model) = "30pro"
        THEN Like(ModelChars(logs[i].model), ThreeMarker)
        ELSE IF NoCredBranch(model) = "25pro"
        THEN Like(ModelChars(logs[i].model), ProMarker)
        ELSE ~Like(ModelChars(logs[i].model), ProMarker)})

\* get_user_from_api_key after the key lookup: "403" (disabled account),
\* "daily" / "group" (429) or "ok".
AuthDecision(user_id, model) ==
    IF ~users[user_id].is_active THEN "403"
    ELSE IF HasCredential(user_id)
    THEN IF TotalUsage(user_id) >= users[user_id].daily_quota
         THEN "daily" ELSE "ok"
    ELSE IF NoCredQuotaLimit(model) > 0
             /\ NoCredUsage(user_id, model) >= NoCredQuotaLimit(model)
         THEN "group" ELSE "ok"

\* The handlers' RPM query: the user's logs of the last minute.
CurrentRpm(user_id) ==
    Cardinality(LogsOf(user_id, now - 60))

MaxRpmBaseOnly(user_has_public) == settings.base_rpm

\* max_rpm = contributor_rpm if user_has_public else base_rpm
MaxRpm(user_has_public) ==
    IF user_has_public THEN settings.contributor_rpm ELSE settings.base_rpm

\* The handlers' rate-limit test (administrators are exempt).
RateLimited(user_id, user_has_public) ==
    /\ ~users[user_id].is_admin
    /\ CurrentRpm(user_id) >= MaxRpm(user_has_public)

\* ------------------------------------------------------------- dispatch

Endpoints == {"chat", "gemini"}

\* The model get_user_from_api_key reads from the request body: the chat body
\* carries it; a Gemini-native body names the model in the path, so
\* body.get("model", "gemini-2.5-flash") yields the default.
BodyModel(model, endpoint) ==
    IF endpoint = "chat" THEN model ELSE "gemini-2.5-flash"

\* The retry test of chat_completions.
ShouldRetry(error) ==
    \E code \in {"404", "500", "503", "429", "RESOURCE_EXHAUSTED", "NOT_FOUND"} :
        TextHas(error, code)

\* log_usage: the row it inserts.
LogRow(r, status_code) ==
    [user_id |-> reqs[r].user_id, credential_id |-> reqs[r].credential,
     model |-> reqs[r].model, status_code |-> status_code, created_at |-> now]

\* log_usage: the credential update that goes with the row.
CountUse(cs, c) ==
    IF cs[c].present
    THEN [cs EXCEPT ![c].total_requests = @ + 1, ![c].last_used_at = now]
    ELSE cs

Spend(kind) == budget' = [budget EXCEPT ![kind] = @ - 1]

\* A request arrives: the get_user_from_api_key dependency (the API key
\* resolves to user u); the body names model m and asks for a stream or not.
Receive(r, u, m, e, stream) ==
    /\ reqs[r].pc = "idle"
    /\ budget.requests > 0
    /\ LET d == AuthDecision(u, BodyModel(m, e))
       IN  IF d = "ok"
           THEN /\ reqs' = [reqs EXCEPT ![r] =
                        [IdleReq EXCEPT !.pc = "rate", !.user_id = u,
                                        !.model = m, !.endpoint = e,
                                        !.stream = stream]]
                /\ ev' = Ev("auth", r, u, 0, m, 0, "ok")
           ELSE /\ reqs' = reqs
                /\ ev' = Ev("auth", r, u, 0, m,
                            IF d = "403" THEN 403 ELSE 429, d)
    /\ Spend("requests")
    /\ UNCHANGED <<calls, api_keys, key_calls, settings, users, creds, logs, now>>

\* A request whose body has no "stream" key (stream defaults to False).
NewRequest(r, u, m, e) == Receive(r, u, m, e, FALSE)

\* A chat-completions request with "stream" in its body.
NewChatRequest(r, u, m, stream) == Receive(r, u, m, "chat", stream)

RateCheckMarking(r) ==
    /\ reqs[r].pc = "rate"
    /\ LET u == reqs[r].user_id
           user_has_public == CheckUserHasPublicCreds(u)
           S == Selectable(u, user_has_public, reqs[r].model, {})
       IN  IF RateLimited(u, user_has_public)
           THEN /\ reqs' = [reqs EXCEPT ![r] = IdleReq]
                /\ \E c \in S :
                       creds' = [creds EXCEPT ![c] = MarkUsed(creds[c], reqs[r].model)]
                /\ ev' = Ev("rate", r, u, 0, reqs[r].model, 429, "rpm")
           ELSE /\ reqs' = [reqs EXCEPT ![r].pc = "select",
                                        ![r].user_has_public = user_has_public]
                /\ creds' = creds
                /\ ev' = Ev("rate", r, u, 0, reqs[r].model, 0, "ok")
    /\ UNCHANGED <<calls, api_keys, key_calls, settings, users, logs, now, budget>>

\* check_user_has_public_creds and the RPM check that open every handler.
RateCheck(r) ==
    /\ reqs[r].pc = "rate"
    /\ LET u == reqs[r].user_id
           user_has_public == CheckUserHasPublicCreds(u)
       IN  IF RateLimited(u, user_has_public)
           THEN /\ reqs' = [reqs EXCEPT ![r] = IdleReq]
                /\ ev' = Ev("rate", r, u, 0, reqs[r].model, 429, "rpm")
           ELSE /\ reqs' = [reqs EXCEPT ![r].pc = "select",
                                        ![r].user_has_public = user_has_public]
                /\ ev' = Ev("rate", r, u, 0, reqs[r].model, 0, "ok")
    /\ UNCHANGED <<calls, api_keys, key_calls, settings, users, creds, logs, now, budget>>

\* The 503 detail of chat_completions when no credential is returned.
NoCredentialDetail(r) ==
    IF reqs[r].endpoint # "chat" THEN "none"
    ELSE IF reqs[r].retry_attempt > 0 THEN "all failed"
    ELSE IF GetRequiredTier(reqs[r].model) = "3" THEN "no tier3"
    ELSE IF ~reqs[r].user_has_public THEN "no credential"
    ELSE "none"

\* One call of CredentialPool.get_available_credential by a handler.
Select(r) ==
    /\ reqs[r].pc = "select"
    /\ LET u == reqs[r].user_id
           m == reqs[r].model
           S == Selectable(u, reqs[r].user_has_public, m, reqs[r].tried)
       IN  IF S = {}
           THEN /\ reqs' = [reqs EXCEPT ![r] = IdleReq]
                /\ creds' = creds
                /\ ev' = Ev("select", r, u, 0, m, 503, NoCredentialDetail(r))
           ELSE \E c \in S :
                /\ creds' = [creds EXCEPT ![c] = MarkUsed(creds[c], m)]
                /\ reqs' = [reqs EXCEPT
                        ![r].pc = "call",
                        ![r].credential = c,
                        ![r].tried = IF reqs[r].endpoint = "chat"
                                     THEN @ \cup {c} ELSE @]
                /\ ev' = Ev("select", r, u, c, m, 0, "ok")
    /\ UNCHANGED <<calls, api_keys, key_calls, settings, users, logs, now, budget>>

\* chat_completions: "continue" of the retry loop, and the 503 after it.
Continue(r, error) ==
    IF reqs[r].retry_attempt + 1 > settings.error_retry_count
    THEN /\ reqs' = [reqs EXCEPT ![r] = IdleReq]
         /\ ev' = [Ev("attempt", r, reqs[r].user_id, reqs[r].credential,
                       reqs[r].model, 503, "exhausted")
                       EXCEPT !.error = error]
    ELSE /\ reqs' = [reqs EXCEPT ![r].pc = "select",
                                 ![r].retry_attempt = @ + 1,
                                 ![r].last_error = error]
         /\ ev' = [Ev("attempt", r, reqs[r].user_id, reqs[r].credential,
                       reqs[r].model, 0, "retry")
                       EXCEPT !.error = error]

\* get_access_token returns None.
AttemptTokenFail(r) ==
    /\ reqs[r].pc = "call"
    /\ IF reqs[r].endpoint = "chat"
       THEN /\ creds' = MarkCredentialError(creds, reqs[r].credential,
                                            TokenRefreshFailed)
            /\ Continue(r, TokenRefreshFailed)
       ELSE /\ creds' = creds
            /\ reqs' = [reqs EXCEPT ![r] = IdleReq]
            /\ ev' = Ev("attempt", r, reqs[r].user_id, reqs[r].credential,
                        reqs[r].model, 503, "token")
    /\ UNCHANGED <<calls, api_keys, key_calls, settings, users, logs, now, budget>>

\* The upstream call answers 200: log_usage().
AttemptSuccess(r) ==
    /\ reqs[r].pc = "call" /\ ~reqs[r].stream
    /\ logs' = Append(logs, LogRow(r, 200))
    /\ creds' = CountUse(creds, reqs[r].credential)
    /\ reqs' = [reqs EXCEPT ![r] = IdleReq]
    /\ ev' = Ev("attempt", r, reqs[r].user_id, reqs[r].credential,
                reqs[r].model, 200, "ok")
    /\ UNCHANGED <<calls, api_keys, key_calls, settings, users, now, budget>>

\* The upstream call fails with error text e.
AttemptError(r, e) ==
    /\ reqs[r].pc = "call" /\ ~reqs[r].stream
    /\ LET c == reqs[r].credential
           failed == HandleCredentialFailure(c, e)
       IN  IF reqs[r].endpoint = "chat"
           THEN /\ users' = failed[2]
                /\ IF ShouldRetry(e)
                       /\ reqs[r].retry_attempt < settings.error_retry_count
                   THEN /\ creds' = failed[1]
                        /\ logs' = logs
                        /\ Continue(r, e)
                   ELSE /\ creds' = CountUse(failed[1], c)
                        /\ logs' = Append(logs, LogRow(r, 500))
                        /\ reqs' = [reqs EXCEPT ![r] = IdleReq]
                        /\ ev' = [Ev("attempt", r, reqs[r].user_id, c,
                                      reqs[r].model, 500, "error")
                                      EXCEPT !.error = e]
           ELSE \* gemini_generate_content
                LET status == StatusOf(e)
                    handled == status \in {0, 401, 403}
                    code == IF status = 0 THEN 500 ELSE status
                IN  /\ users' = IF handled THEN failed[2] ELSE users
                    /\ creds' = CountUse(IF handled THEN failed[1] ELSE creds, c)
                    /\ logs' = Append(logs, LogRow(r, code))
                    /\ reqs' = [reqs EXCEPT ![r] = IdleReq]
                    /\ ev' = [Ev("attempt", r, reqs[r].user_id, c,
                                  reqs[r].model, code, "error")
                                  EXCEPT !.error = e]
    /\ UNCHANGED <<calls, api_keys, key_calls, settings, now, budget>>

\* A streaming request got its access token: chat_completions answers with
\* the StreamingResponse (HTTP 200) and stream_generator_with_retry starts.
StreamOpen(r) ==
    /\ reqs[r].pc = "call" /\ reqs[r].stream /\ reqs[r].endpoint = "chat"
    /\ reqs' = [reqs EXCEPT ![r].pc = "stream"]
    /\ ev' = Ev("open", r, reqs[r].user_id, reqs[r].credential,
                reqs[r].model, 200, "stream")
    /\ UNCHANGED <<calls, api_keys, key_calls, settings, users, creds, logs, now, budget>>

\* stream_generator_with_retry: the upstream stream ends well, log_usage().
StreamSuccess(r) ==
    /\ reqs[r].pc = "stream"
    /\ logs' = Append(logs, LogRow(r, 200))
    /\ creds' = CountUse(creds, reqs[r].credential)
    /\ reqs' = [reqs EXCEPT ![r] = IdleReq]
    /\ ev' = Ev("stream", r, reqs[r].user_id, reqs[r].credential,
                reqs[r].model, 200, "ok")
    /\ UNCHANGED <<calls, api_keys, key_calls, settings, users, now, budget>>

\* stream_generator_with_retry: log_usage(500) and the final error frame
\* (the response status, 200, has been sent already).
StreamGiveUp(r, cs, error) ==
    /\ creds' = CountUse(cs, reqs[r].credential)
    /\ logs' = Append(logs, LogRow(r, 500))
    /\ reqs' = [reqs EXCEPT ![r] = IdleReq]
    /\ ev' = [Ev("stream", r, reqs[r].user_id, reqs[r].credential,
                 reqs[r].model, 200, "error frame") EXCEPT !.error = error]

\* stream_generator_with_retry: the upstream stream fails with error text e.
StreamError(r, e) ==
    /\ reqs[r].pc = "stream"
    /\ LET failed == HandleCredentialFailure(reqs[r].credential, e)
       IN  /\ users' = failed[2]
           /\ IF ShouldRetry(e)
                  /\ reqs[r].stream_retry < settings.error_retry_count
              THEN /\ creds' = failed[1]
                   /\ logs' = logs
                   /\ reqs' = [reqs EXCEPT ![r].pc = "reselect",
                                           ![r].last_error = e]
                   /\ ev' = [Ev("stream", r, reqs[r].user_id,
                                reqs[r].credential, reqs[r].model, 0, "retry")
                                EXCEPT !.error = e]
              ELSE StreamGiveUp(r, failed[1], e)
    /\ UNCHANGED <<calls, api_keys, key_calls, settings, now, budget>>

\* stream_generator_with_retry asks the pool for another credential.
StreamReselect(r) ==
    /\ reqs[r].pc = "reselect"
    /\ LET u == reqs[r].user_id
           m == reqs[r].model
           S == Selectable(u, reqs[r].user_has_public, m, reqs[r].tried)
       IN  IF S = {}
           THEN StreamGiveUp(r, creds, reqs[r].last_error)
           ELSE \E c \in S :
                /\ creds' = [creds EXCEPT ![c] = MarkUsed(creds[c], m)]
                /\ logs' = logs
                /\ reqs' = [reqs EXCEPT ![r].pc = "retoken",
                                        ![r].new_credential = c,
                                        ![r].tried = @ \cup {c}]
                /\ ev' = Ev("reselect", r, u, c, m, 0, "ok")
    /\ UNCHANGED <<calls, api_keys, key_calls, settings, users, now, budget>>

\* stream_generator_with_retry: get_access_token for the new credential
\* returns a token (the stream switches to it) or None.
StreamToken(r, has_token) ==
    /\ reqs[r].pc = "retoken"
    /\ IF has_token
       THEN /\ reqs' = [reqs EXCEPT ![r].pc = "stream",
                                    ![r].credential = reqs[r].new_credential,
                                    ![r].new_credential = 0,
                                    ![r].stream_retry = @ + 1]
            /\ ev' = Ev("stream", r, reqs[r].user_id, reqs[r].new_credential,
                        reqs[r].model, 0, "switched")
            /\ UNCHANGED <<calls, api_keys, key_calls, creds, logs>>
       ELSE StreamGiveUp(r, creds, reqs[r].last_error)
    /\ UNCHANGED <<calls, api_keys, key_calls, settings, users, now, budget>>

\* gemini_stream_generate_content got its access token and answers with the
\* StreamingResponse (HTTP 200); its stream_generator starts.
GeminiStreamOpen(r) ==
    /\ reqs[r].pc = "call" /\ reqs[r].stream
    /\ reqs[r].endpoint = "gemini stream"
    /\ reqs' = [reqs EXCEPT ![r].pc = "gstream"]
    /\ ev' = Ev("open", r, reqs[r].user_id, reqs[r].credential,
                reqs[r].model, 200, "stream")
    /\ UNCHANGED <<calls, api_keys, key_calls, settings, users, creds, logs, now, budget>>

\* stream_generator: upstream answered 200 and the lines were relayed.
GeminiStreamSuccess(r) ==
    /\ reqs[r].pc = "gstream"
    /\ logs' = Append(logs, LogRow(r, 200))
    /\ creds' = CountUse(creds, reqs[r].credential)
    /\ reqs' = [reqs EXCEPT ![r] = IdleReq]
    /\ ev' = Ev("stream", r, reqs[r].user_id, reqs[r].credential,
                reqs[r].model, 200, "ok")
    /\ UNCHANGED <<calls, api_keys, key_calls, settings, users, now, budget>>

\* stream_generator: upstream answered with a status other than 200 and
\* error text e: the error frame is sent and the generator returns.
GeminiStreamRefused(r, e) ==
    /\ reqs[r].pc = "gstream"
    /\ StatusOf(e) # 0
    /\ LET failed == HandleCredentialFailure(reqs[r].credential, e)
           handled == StatusOf(e) \in {401, 403}
       IN  /\ creds' = IF handled THEN failed[1] ELSE creds
           /\ users' = IF handled THEN failed[2] ELSE users
    /\ reqs' = [reqs EXCEPT ![r] = IdleReq]
    /\ ev' = [Ev("stream", r, reqs[r].user_id, reqs[r].credential,
                 reqs[r].model, 200, "error frame") EXCEPT !.error = e]
    /\ UNCHANGED <<calls, api_keys, key_calls, settings, logs, now, budget>>

\* stream_generator: the upstream call raises (error text e, no response).
GeminiStreamError(r, e) ==
    /\ reqs[r].pc = "gstream"
    /\ StatusOf(e) = 0
    /\ LET failed == HandleCredentialFailure(reqs[r].credential, e)
       IN  /\ creds' = CountUse(failed[1], reqs[r].credential)
           /\ users' = failed[2]
    /\ logs' = Append(logs, LogRow(r, 500))
    /\ reqs' = [reqs EXCEPT ![r] = IdleReq]
    /\ ev' = [Ev("stream", r, reqs[r].user_id, reqs[r].credential,
                 reqs[r].model, 200, "error frame") EXCEPT !.error = e]
    /\ UNCHANGED <<calls, api_keys, key_calls, settings, now, budget>>

\* Time passes.
TickSteps == {1, 60}

Tick(d) ==
    /\ budget.ticks > 0
    /\ now' = now + d
    /\ ev' = Ev("tick", 0, 0, 0, "", 0, "")
    /\ Spend("ticks")
    /\ UNCHANGED <<calls, api_keys, key_calls, settings, users, creds, logs, reqs>>

\* ------------------------------------------------- credential management

\* The credential files users upload: email, refresh token, project id.
UploadFiles ==
    {[email |-> "a@x", refresh_token |-> "rt-a", project_id |-> "proj-a"],
     [email |-> "b@x", refresh_token |-> "rt-b", project_id |-> "proj-b"],
     [email |-> "c@x", refresh_token |-> "rt-c", project_id |-> ""]}

\* The outcomes of the two verification probes: <<is_valid, model_tier>>.
ProbeOutcomes == {<<FALSE, "2.5">>, <<TRUE, "2.5">>, <<TRUE, "3">>}

\* The id the store gives the next credential row (rowid: largest + 1).
NextCredId ==
    IF Present = {} THEN 1
    ELSE (CHOOSE c \in Present : \A d \in Present : d <= c) + 1

\* The donation reward of a tier as the owner-facing handlers compute it.
OwnerReward(model_tier) ==
    IF model_tier = "3" THEN settings.credential_reward_quota_30
    ELSE settings.credential_reward_quota_25

\* update_my_credential / delete_my_credential: daily_quota after taking a
\* donation reward back.
Reclaim(daily_quota, deduct) ==
    IF daily_quota - settings.default_daily_quota >= deduct
    THEN Max(settings.default_daily_quota, daily_quota - deduct)
    ELSE daily_quota

\* upload_credentials, one JSON file of the upload.
UploadCredential(u, file, is_public, probe) ==
    /\ budget.ops > 0
    /\ LET want_public == is_public \/ settings.force_donate
           is_valid == probe[1]
           model_tier == probe[2]
           actual_public == want_public /\ is_valid
           duplicate == \E c \in Present :
                            \/ creds[c].email = file.email
                            \/ creds[c].refresh_token = file.refresh_token
           id == NextCredId
       IN  IF duplicate
           THEN /\ UNCHANGED <<calls, api_keys, key_calls, creds, users>>
                /\ ev' = Ev("upload", 0, u, 0, "", 200, "skip")
           ELSE /\ id \in CredIds
                /\ creds' = [creds EXCEPT ![id] =
                        [NoCred EXCEPT !.present = TRUE,
                                       !.user_id = u,
                                       !.email = file.email,
                                       !.refresh_token = file.refresh_token,
                                       !.project_id = file.project_id,
                                       !.model_tier = model_tier,
                                       !.is_public = actual_public,
                                       !.is_active = is_valid]]
                /\ users' = IF actual_public /\ is_valid
                            THEN [users EXCEPT ![u].daily_quota =
                                      @ + OwnerReward(model_tier)]
                            ELSE users
                /\ ev' = Ev("upload", 0, u, id, "", 200,
                            IF actual_public THEN "public" ELSE "private")
    /\ Spend("ops")
    /\ UNCHANGED <<calls, api_keys, key_calls, settings, logs, now, reqs>>

\* The values of an optional boolean query parameter.
OptBool == {"none", "true", "false"}

HasAuthErrorRecord(last_error) ==
    /\ last_error # ""
    /\ \/ TextHas(last_error, "403") \/ TextHas(last_error, "401")
       \/ TextHas(last_error, "renzheng") \/ TextHas(last_error, "wuxiao")

\* update_my_credential (PATCH /credentials/{cred_id}).
UpdateMyCredential(u, c, is_public, is_active) ==
    /\ budget.ops > 0
    /\ c \in Present /\ creds[c].user_id = u
    /\ LET cred == creds[c]
           refused ==
               IF is_public = "true"
               THEN ~cred.is_active \/ HasAuthErrorRecord(cred.last_error)
               ELSE IF is_public = "false"
               THEN cred.is_public /\ settings.lock_donate /\ cred.is_active
               ELSE FALSE
           quota ==
               IF is_public = "true" /\ ~cred.is_public
               THEN users[u].daily_quota + OwnerReward(cred.model_tier)
               ELSE IF is_public = "false" /\ cred.is_public
               THEN Reclaim(users[u].daily_quota, OwnerReward(cred.model_tier))
               ELSE users[u].daily_quota
           found == [daily_quota |-> users[u].daily_quota,
                     bonus_quota |-> users[u].bonus_quota,
                     is_public |-> cred.is_public]
       IN  IF refused
           THEN /\ UNCHANGED <<calls, api_keys, key_calls, creds, users>>
                /\ ev' = [Ev("patch", 0, u, c, "", 400, is_public)
                              EXCEPT !.before = found]
           ELSE /\ users' = [users EXCEPT ![u].daily_quota = quota]
                /\ creds' = [creds EXCEPT
                        ![c].is_public = IF is_public = "none" THEN @
                                         ELSE is_public = "true",
                        ![c].is_active = IF is_active = "none" THEN @
                                         ELSE is_active = "true"]
                /\ ev' = [Ev("patch", 0, u, c, "", 200, is_public)
                              EXCEPT !.before = found]
    /\ Spend("ops")
    /\ UNCHANGED <<calls, api_keys, key_calls, settings, logs, now, reqs>>

\* delete_my_credential (DELETE /credentials/{cred_id}).
DeleteMyCredential(u, c) ==
    /\ budget.ops > 0
    /\ c \in Present /\ creds[c].user_id = u
    /\ users' = IF creds[c].is_public
                THEN [users EXCEPT ![u].daily_quota =
                        Reclaim(@, OwnerReward(creds[c].model_tier))]
                ELSE users
    /\ creds' = [creds EXCEPT ![c] = NoCred]
    /\ ev' = Ev("delete", 0, u, c, "", 200, "")
    /\ Spend("ops")
    /\ UNCHANGED <<calls, api_keys, key_calls, settings, logs, now, reqs>>

\* toggle_donate (POST /api/manage/credentials/{id}/donate).
ToggleDonate(u, c) ==
    /\ budget.ops > 0
    /\ c \in Present /\ creds[c].user_id = u
    /\ creds' = [creds EXCEPT ![c].is_public = ~@]
    /\ ev' = Ev("donate", 0, u, c, "", 200, "")
    /\ Spend("ops")
    /\ UNCHANGED <<calls, api_keys, key_calls, settings, users, logs, now, reqs>>

\* What a verification finds: no token, or the probes' outcome.
VerifyOutcomes == {"no token", "invalid 403", "invalid 500", "valid 2.5", "valid 3"}

\* The row a verification (verify_my_credential, verify_credential) writes.
Verified(cred, outcome) ==
    CASE outcome = "no token" ->
            [cred EXCEPT !.is_active = FALSE, !.last_error = NoAccessToken]
      [] outcome = "invalid 403" ->
            [cred EXCEPT !.is_active = FALSE, !.model_tier = "2.5",
                         !.last_error = "renzheng shibai (403)"]
      [] outcome = "invalid 500" ->
            [cred EXCEPT !.is_active = FALSE, !.model_tier = "2.5",
                         !.last_error = "API fanhui 500"]
      [] outcome = "valid 2.5" ->
            [cred EXCEPT !.is_active = TRUE, !.model_tier = "2.5"]
      [] outcome = "valid 3" ->
            [cred EXCEPT !.is_active = TRUE, !.model_tier = "3"]

\* verify_my_credential (POST /credentials/{cred_id}/verify).
VerifyMyCredential(u, c, outcome) ==
    /\ budget.ops > 0
    /\ c \in Present /\ creds[c].user_id = u
    /\ creds' = [creds EXCEPT ![c] = Verified(creds[c], outcome)]
    /\ ev' = Ev("verify", 0, u, c, "", 200, outcome)
    /\ Spend("ops")
    /\ UNCHANGED <<calls, api_keys, key_calls, settings, users, logs, now, reqs>>

\* toggle_credential (admin: POST /api/manage/credentials/{id}/toggle).
ToggleCredential(c) ==
    /\ budget.ops > 0
    /\ c \in Present
    /\ creds' = [creds EXCEPT ![c].is_active = ~@]
    /\ ev' = Ev("toggle", 0, AdminId, c, "", 200, "")
    /\ Spend("ops")
    /\ UNCHANGED <<calls, api_keys, key_calls, settings, users, logs, now, reqs>>

\* set_credential_tier (admin: POST /api/manage/credentials/{id}/tier).
SetCredentialTier(c, tier) ==
    /\ budget.ops > 0
    /\ c \in Present
    /\ creds' = [creds EXCEPT ![c].model_tier = tier]
    /\ ev' = Ev("tier", 0, AdminId, c, "", 200, tier)
    /\ Spend("ops")
    /\ UNCHANGED <<calls, api_keys, key_calls, settings, users, logs, now, reqs>>

\* delete_credential (admin: DELETE /api/admin/credentials/{id}).
AdminDeleteCredential(c) ==
    /\ budget.ops > 0
    /\ c \in Present
    /\ creds' = [creds EXCEPT ![c] = NoCred]
    /\ ev' = Ev("admin delete", 0, AdminId, c, "", 200, "")
    /\ Spend("ops")
    /\ UNCHANGED <<calls, api_keys, key_calls, settings, users, logs, now, reqs>>

\* The daily quotas an administrator gives a user.
CustomQuotas == {1, 4}

\* update_user (admin: PUT /api/admin/users/{user_id}) with daily_quota.
UpdateUser(u, daily_quota) ==
    /\ budget.ops > 0
    /\ users' = [users EXCEPT ![u].daily_quota = daily_quota]
    /\ ev' = Ev("user", 0, AdminId, 0, "", 200, "")
    /\ Spend("ops")
    /\ UNCHANGED <<calls, api_keys, key_calls, settings, creds, logs, now, reqs>>

\* create_api_key: a user may hold this many keys.
MaxApiKeys == 5

\* A POST /api-keys call that has not started.
IdleKeyCall == [pc |-> "idle", user_id |-> 0]

\* register: the key created with account u (the accounts are registered in
\* the order of their ids).
DefaultKey(u) == [id |-> u, user_id |-> u]

\* SELECT COUNT(id) FROM api_keys WHERE user_id = ...
KeyCount(user_id) == Cardinality({k \in api_keys : k.user_id = user_id})

\* The id the store gives the next api_keys row (rowid: largest + 1).
NextKeyId ==
    IF api_keys = {} THEN 1
    ELSE (CHOOSE i \in {k.id : k \in api_keys} :
              \A k \in api_keys : k.id <= i) + 1

\* create_api_key, up to the answer of its count query.
CreateApiKeyCount(k, u) ==
    /\ budget.ops > 0
    /\ key_calls[k].pc = "idle"
    /\ IF KeyCount(u) >= MaxApiKeys
       THEN /\ key_calls' = key_calls
            /\ ev' = Ev("key", 0, u, 0, "", 400, "limit")
       ELSE /\ key_calls' = [key_calls EXCEPT ![k] =
                                [pc |-> "insert", user_id |-> u]]
            /\ ev' = Ev("key", 0, u, 0, "", 0, "counted")
    /\ Spend("ops")
    /\ UNCHANGED <<calls, settings, users, creds, logs, now, reqs, api_keys>>

\* create_api_key, from db.add(api_key) to its answer.
CreateApiKeyInsert(k) ==
    /\ key_calls[k].pc = "insert"
    /\ api_keys' = api_keys \cup
                       {[id |-> NextKeyId, user_id |-> key_calls[k].user_id]}
    /\ key_calls' = [key_calls EXCEPT ![k] = IdleKeyCall]
    /\ ev' = Ev("key", 0, key_calls[k].user_id, 0, "", 200, "created")
    /\ UNCHANGED <<calls, settings, users, creds, logs, now, reqs, budget>>

\* delete_api_key
DeleteApiKey(u, key_id) ==
    /\ budget.ops > 0
    /\ [id |-> key_id, user_id |-> u] \in api_keys
    /\ api_keys' = api_keys \ {[id |-> key_id, user_id |-> u]}
    /\ ev' = Ev("key", 0, u, 0, "", 200, "deleted")
    /\ Spend("ops")
    /\ UNCHANGED <<calls, settings, users, creds, logs, now, reqs, key_calls>>

\* regenerate_api_key: the row gets a new secret.
RegenerateApiKey(u, key_id) ==
    /\ budget.ops > 0
    /\ [id |-> key_id, user_id |-> u] \in api_keys
    /\ ev' = Ev("key", 0, u, 0, "", 200, "regenerated")
    /\ Spend("ops")
    /\ UNCHANGED <<calls, settings, users, creds, logs, now, reqs, api_keys,
                   key_calls>>

\* get_discord_user_key and regenerate_discord_user_key: the user's active
\* key is looked up with scalar_one_or_none (no key: one is created; several
\* keys: the lookup raises).
DiscordUserKey(u) ==
    /\ budget.ops > 0
    /\ IF KeyCount(u) = 0
       THEN /\ api_keys' = api_keys \cup {[id |-> NextKeyId, user_id |-> u]}
            /\ ev' = Ev("key", 0, u, 0, "", 200, "discord created")
       ELSE /\ api_keys' = api_keys
            /\ ev' = Ev("key", 0, u, 0, "",
                        IF KeyCount(u) = 1 THEN 200 ELSE 500, "discord")
    /\ Spend("ops")
    /\ UNCHANGED <<calls, settings, users, creds, logs, now, reqs, key_calls>>

\* ---------------------------------------------------------- specification

\* The tunables of a small deployment (every one is an operator setting).
BaseSettings ==
    [credential_pool_mode |-> "full_shared",
     force_donate |-> FALSE, lock_donate |-> FALSE,
     base_rpm |-> 1, contributor_rpm |-> 2,
     error_retry_count |-> 1,
     default_daily_quota |-> 2,
     quota_flash |-> 1, quota_25pro |-> 1, quota_30pro |-> 1,
     credential_reward_quota_25 |-> 2, credential_reward_quota_30 |-> 3,
     no_cred_quota_flash |-> 1, no_cred_quota_25pro |-> 1,
     no_cred_quota_30pro |-> 1,
     cd_flash |-> 0, cd_pro |-> 0, cd_30 |-> 60]

PoolModes == {"private", "tier3_shared", "full_shared"}

\* 06:59:59 UTC of the second day of the epoch.
StartTime == DaySeconds + ResetSecond - 1

NewUser(u) ==
    [is_active |-> TRUE, is_admin |-> (u = AdminId),
     daily_quota |-> BaseSettings.default_daily_quota, bonus_quota |-> 0]

\* A fresh deployment: two accounts, no credentials, no usage.
InitStore ==
    /\ users = [u \in UserIds |-> NewUser(u)]
    /\ creds = [c \in CredIds |-> NoCred]
    /\ logs = <<>>
    /\ now = StartTime
    /\ reqs = [r \in ReqIds |-> IdleReq]
    /\ ev = NoEv
    /\ api_keys = {DefaultKey(u) : u \in UserIds}
    /\ key_calls = [k \in KeyCallIds |-> IdleKeyCall]
    /\ calls = [i \in CallIds |-> IdleCall]

\* ---- the credential pool: uploads and chat requests under each sharing
\* mode.

PoolModels == {"gemini-2.5-flash", "gemini-3-pro-preview"}
PoolFiles == {f \in UploadFiles : f.email \in {"a@x", "b@x"}}
PoolErrors == {"API Error 403: PERMISSION_DENIED"}

InitPool ==
    /\ InitStore
    /\ \E mode \in PoolModes :
           settings = [BaseSettings EXCEPT !.credential_pool_mode = mode]
    /\ budget = [ops |-> PoolOps, requests |-> PoolRequests, ticks |-> 0]

NextPool ==
    \/ \E u \in UserIds, f \in PoolFiles, p \in BOOLEAN, o \in ProbeOutcomes :
           UploadCredential(u, f, p, o)
    \/ \E r \in ReqIds, u \in UserIds, m \in PoolModels :
           NewRequest(r, u, m, "chat")
    \/ \E r \in ReqIds : RateCheck(r)
    \/ \E r \in ReqIds : Select(r)
    \/ \E r \in ReqIds : AttemptTokenFail(r)
    \/ \E r \in ReqIds : AttemptSuccess(r)
    \/ \E r \in ReqIds, e \in PoolErrors : AttemptError(r, e)

SpecPool == InitPool /\ [][NextPool]_vars

\* ---- the potluck rule: full_shared mode, with owners donating and taking
\* back credentials while a request is being served, and upstream errors
\* that both disable the credential and are retried.

PotluckProbes == {o \in ProbeOutcomes : o[1]}
PotluckErrors == {"API Error 500: backend 403"}

InitPotluck ==
    /\ InitStore
    /\ settings = [BaseSettings EXCEPT !.credential_pool_mode = "full_shared"]
    /\ budget = [ops |-> PotluckOps, requests |-> PotluckRequests, ticks |-> 0]

NextPotluck ==
    \/ \E u \in UserIds, f \in PoolFiles, p \in BOOLEAN, o \in PotluckProbes :
           UploadCredential(u, f, p, o)
    \/ \E u \in UserIds, c \in CredIds : ToggleDonate(u, c)
    \/ \E r \in ReqIds, u \in UserIds :
           NewRequest(r, u, "gemini-2.5-flash", "chat")
    \/ \E r \in ReqIds : RateCheck(r)
    \/ \E r \in ReqIds : Select(r)
    \/ \E r \in ReqIds : AttemptSuccess(r)
    \/ \E r \in ReqIds, e \in PotluckErrors : AttemptError(r, e)

SpecPotluck == InitPotluck /\ [][NextPotluck]_vars

\* ---- credential management: every handler that changes a credential's
\* donation state, activity or tier, and the failure path of a request.

CredsErrors == {"API Error 403: PERMISSION_DENIED"}
Tiers == {"2.5", "3"}

InitCreds ==
    /\ InitStore
    /\ \E lock \in BOOLEAN : settings = [BaseSettings EXCEPT !.lock_donate = lock]
    /\ budget = [ops |-> CredsOps, requests |-> CredsRequests, ticks |-> 0]

NextCreds ==
    \/ \E u \in UserIds, f \in UploadFiles, p \in BOOLEAN, o \in ProbeOutcomes :
           UploadCredential(u, f, p, o)
    \/ \E u \in UserIds, c \in CredIds, p \in OptBool, a \in OptBool :
           UpdateMyCredential(u, c, p, a)
    \/ \E u \in UserIds, c \in CredIds : DeleteMyCredential(u, c)
    \/ \E u \in UserIds, c \in CredIds : ToggleDonate(u, c)
    \/ \E u \in UserIds, c \in CredIds, o \in VerifyOutcomes :
           VerifyMyCredential(u, c, o)
    \/ \E c \in CredIds : ToggleCredential(c)
    \/ \E c \in CredIds, t \in Tiers : SetCredentialTier(c, t)
    \/ \E c \in CredIds : AdminDeleteCredential(c)
    \/ \E r \in ReqIds, u \in UserIds : NewRequest(r, u, "gemini-2.5-flash", "chat")
    \/ \E r \in ReqIds : RateCheck(r)
    \/ \E r \in ReqIds : Select(r)
    \/ \E r \in ReqIds : AttemptSuccess(r)
    \/ \E r \in ReqIds, e \in CredsErrors : AttemptError(r, e)

SpecCreds == InitCreds /\ [][NextCreds]_vars

\* ---- quota and rate limiting: requests on both endpoints around the
\* 07:00 UTC rollover, by a plain user and by the administrator.

QuotaModels == {"gemini-2.5-flash"}
QuotaFiles == {f \in UploadFiles : f.email = "a@x"}
QuotaErrors == {"API Error 400: INVALID_ARGUMENT"}
\* Uploads that verify (the models asked for here need no tier 3).
QuotaProbes == {o \in ProbeOutcomes : o[1] /\ o[2] = "2.5"}

InitQuota ==
    /\ InitStore
    /\ settings = BaseSettings
    /\ budget = [ops |-> QuotaOps, requests |-> QuotaRequests,
                 ticks |-> QuotaTicks]

NextQuota ==
    \/ \E u \in UserIds, f \in QuotaFiles, p \in BOOLEAN, o \in QuotaProbes :
           UploadCredential(u, f, p, o)
    \/ \E r \in ReqIds, u \in UserIds, m \in QuotaModels, e \in Endpoints :
           NewRequest(r, u, m, e)
    \/ \E r \in ReqIds : RateCheck(r)
    \/ \E r \in ReqIds : Select(r)
    \/ \E r \in ReqIds : AttemptSuccess(r)
    \/ \E r \in ReqIds, e \in QuotaErrors : AttemptError(r, e)
    \/ \E d \in TickSteps : Tick(d)

SpecQuota == InitQuota /\ [][NextQuota]_vars

\* ---- the caps of users without credentials: a user gains usage through a
\* credential, loses the credential, and asks for models of each group.

GroupModels == {"gemini-2.5-flash", "gemini-2.5-pro", "gemini-3-pro-preview"}

InitGroup ==
    /\ InitStore
    /\ settings = BaseSettings
    /\ budget = [ops |-> GroupOps, requests |-> GroupRequests, ticks |-> 0]

NextGroup ==
    \/ \E u \in UserIds, f \in QuotaFiles, p \in BOOLEAN, o \in ProbeOutcomes :
           UploadCredential(u, f, p, o)
    \/ \E c \in CredIds : ToggleCredential(c)
    \/ \E r \in ReqIds, u \in UserIds, m \in GroupModels, e \in Endpoints :
           NewRequest(r, u, m, e)
    \/ \E r \in ReqIds : RateCheck(r)
    \/ \E r \in ReqIds : Select(r)
    \/ \E r \in ReqIds : AttemptSuccess(r)
    \/ \E r \in ReqIds, e \in QuotaErrors : AttemptError(r, e)

SpecGroup == InitGroup /\ [][NextGroup]_vars

\* ------------------------------------------------ properties of the pool

\* A model id matching gemini-3-*.
MatchesGemini3(m) ==
    /\ Len(ModelChars(m)) >= Len(Gemini3Marker)
    /\ SubSeq(ModelChars(m), 1, Len(Gemini3Marker)) = Gemini3Marker

\* The step just taken is the selection made for request r.
SelectStep(r) ==
    reqs[r].pc = "select" /\ ev'.op = "select" /\ ev'.req = r

\* The credentials request r could be given if tiers did not matter.
EligibleButTier(r) ==
    {c \in Present :
        /\ creds[c].is_active
        /\ creds[c].project_id # ""
        /\ c \notin reqs[r].tried
        /\ ModeAllows(creds[c], reqs[r].user_id, reqs[r].user_has_public,
                      GetRequiredTier(reqs[r].model))}

\* C1: a selection for a gemini-3-* model only ever returns a tier-"3"
\* credential; a selection for any other model is not narrowed by tier: it
\* returns no credential only when no credential of any tier is otherwise
\* eligible.
C1_TierMatching ==
    [][\A r \in ReqIds : SelectStep(r) =>
          IF MatchesGemini3(reqs[r].model)
          THEN ev'.cred # 0 => creds[ev'.cred].model_tier = "3"
          ELSE /\ ev'.cred # 0 => ev'.cred \in EligibleButTier(r)
               /\ ev'.cred = 0 => EligibleButTier(r) = {}]_vars

\* A gemini-3-* request was given a tier-3 credential while the requester
\* also had an active tier-2.5 credential of their own that was passed over.
C1_Witness ==
    /\ ev.op = "select" /\ ev.cred # 0
    /\ MatchesGemini3(ev.model)
    /\ creds[ev.cred].model_tier = "3"
    /\ \E d \in Present : /\ d # ev.cred
                          /\ creds[d].user_id = ev.user_id
                          /\ creds[d].is_active
                          /\ creds[d].project_id # ""
                          /\ creds[d].model_tier = "2.5"

\* C3: in private mode every credential a selection returns is owned by the
\* requesting user and active (so never another user's public credential).
C3_PrivateOwnOnly ==
    (/\ ev.op = "select" /\ ev.cred # 0
     /\ settings.credential_pool_mode = "private")
        => /\ creds[ev.cred].user_id = ev.user_id
           /\ creds[ev.cred].is_active

\* Private mode: a selection returned the requester's own credential while
\* another user's active public credential was in the store.
C3_Witness ==
    /\ ev.op = "select" /\ ev.cred # 0
    /\ settings.credential_pool_mode = "private"
    /\ creds[ev.cred].user_id = ev.user_id
    /\ \E d \in Present : /\ creds[d].user_id # ev.user_id
                          /\ creds[d].is_public /\ creds[d].is_active
                          /\ creds[d].project_id # ""

\* C4: in tier3_shared mode a selection for a gemini-3-* model returns
\* another user's (public) credential only if the requester owns an active
\* tier-3 credential; a selection for any other model is never refused while
\* an untried active public tier-2.5 credential exists, whoever asks.
C4_Tier3Shared ==
    [][\A r \in ReqIds :
          (SelectStep(r) /\ settings.credential_pool_mode = "tier3_shared") =>
              IF MatchesGemini3(reqs[r].model)
              THEN (ev'.cred # 0 /\ creds[ev'.cred].user_id # reqs[r].user_id)
                      => /\ creds[ev'.cred].is_public
                         /\ \E d \in Present :
                               /\ creds[d].user_id = reqs[r].user_id
                               /\ creds[d].model_tier = "3"
                               /\ creds[d].is_active
              ELSE ev'.cred = 0 =>
                      ~\E d \in Present :
                          /\ creds[d].is_public /\ creds[d].is_active
                          /\ creds[d].model_tier = "2.5"
                          /\ creds[d].project_id # ""
                          /\ d \notin reqs[r].tried]_vars

\* tier3_shared: the owner of an active tier-3 credential was given another
\* user's public tier-3 credential for a gemini-3-* request.
C4_Witness ==
    /\ ev.op = "select" /\ ev.cred # 0
    /\ settings.credential_pool_mode = "tier3_shared"
    /\ MatchesGemini3(ev.model)
    /\ creds[ev.cred].user_id # ev.user_id
    /\ creds[ev.cred].is_public
    /\ \E d \in Present : /\ creds[d].user_id = ev.user_id
                          /\ creds[d].model_tier = "3"
                          /\ creds[d].is_active

\* C5: in full_shared mode every selection of a request (the first and each
\* retry) returns another user's credential only if, when that selection is
\* made, the requester owns a credential that is active and public.
C5_PotluckAtSelection ==
    (/\ ev.op = "select" /\ ev.cred # 0
     /\ settings.credential_pool_mode = "full_shared"
     /\ creds[ev.cred].user_id # ev.user_id)
        => CheckUserHasPublicCreds(ev.user_id)

\* ------------------------------------------- properties of the donation bonus

\* The sum of reward(c) over a user's credentials that are public and active.
RECURSIVE SumReward(_)
SumReward(S) ==
    IF S = {} THEN 0
    ELSE LET c == CHOOSE x \in S : TRUE
         IN  OwnerReward(creds[c].model_tier) + SumReward(S \ {c})

RewardSum(u) ==
    SumReward({c \in Present : /\ creds[c].user_id = u
                               /\ creds[c].is_public /\ creds[c].is_active})

\* C2: in every reachable state each user's donation bonus equals the sum of
\* the rewards of that user's public and active credentials, the bonus being
\* read either as the bonus_quota column or as what daily_quota holds above
\* the default quota.
C2_BonusIsRewardSum ==
    \A u \in UserIds :
        \/ users[u].bonus_quota = RewardSum(u)
        \/ users[u].daily_quota - settings.default_daily_quota = RewardSum(u)

\* ---------------------------------------- properties of quota and rate limit

\* The user's usage logs created at or after time t.
LogsSince(u, t) ==
    {i \in DOMAIN logs : logs[i].user_id = u /\ logs[i].created_at >= t}

\* The last step was the quota check of a request by an enabled user who
\* owns (does not own) an active credential.
QuotaChecked(owns) ==
    /\ ev.op = "auth"
    /\ users[ev.user_id].is_active
    /\ HasCredential(ev.user_id) = owns

\* C6: a request of a user who owns an active credential is rejected with 429
\* exactly when the user's successful usage logs since the start of the quota
\* day number at least base quota + bonus quota; failed logs do not count.
C6_DailyQuotaCountsSuccesses ==
    QuotaChecked(TRUE) =>
        (ev.status = 429 <=>
            Cardinality({i \in LogsSince(ev.user_id, StartOfDay(now)) :
                            logs[i].status_code = 200})
                >= users[ev.user_id].daily_quota + users[ev.user_id].bonus_quota)

\* 07:00 UTC of the current date when t is at or past it, else 07:00 UTC of
\* the previous date.
RolloverStart(t) ==
    IF t % DaySeconds >= ResetSecond
    THEN t - (t % DaySeconds) + ResetSecond
    ELSE t - (t % DaySeconds) - DaySeconds + ResetSecond

\* C7: the start of the quota day is 07:00 UTC of the current date from
\* 07:00:00 on and 07:00 UTC of the previous date before, and the daily quota
\* check counts exactly the logs created at or after it: a log of 06:59:59
\* belongs to the day before, a log of 07:00:00 to the new day.
C7_Rollover ==
    /\ StartOfDay(now) = RolloverStart(now)
    /\ QuotaChecked(TRUE) =>
          (ev.status = 429 <=>
              Cardinality(LogsSince(ev.user_id, RolloverStart(now)))
                  >= users[ev.user_id].daily_quota)

\* A user whose quota was used up at 06:59:59 is admitted at 07:00:01.
C7_Witness ==
    /\ QuotaChecked(TRUE)
    /\ ev.status = 0
    /\ now = StartTime + 2
    /\ Cardinality(LogsSince(ev.user_id, StartTime))
           >= users[ev.user_id].daily_quota
    /\ \A i \in DOMAIN logs : logs[i].created_at = StartTime

\* The no-credential cap of a model group.
GroupCap(g) ==
    IF g = "30" THEN settings.no_cred_quota_30pro
    ELSE IF g = "pro" THEN settings.no_cred_quota_25pro
    ELSE settings.no_cred_quota_flash

\* C8: a request of a user who owns no active credential is rejected with 429
\* exactly when the user's usage logs since the start of the quota day whose
\* model is of the requested model's group number at least the no-credential
\* cap of that group.
C8_NoCredentialGroupCap ==
    QuotaChecked(FALSE) =>
        LET g == GetModelGroup(ev.model)
        IN  ev.status = 429 <=>
                Cardinality({i \in LogsSince(ev.user_id, StartOfDay(now)) :
                                GetModelGroup(logs[i].model) = g})
                    >= GroupCap(g)

\* The user's usage logs of the last 60 seconds.
LastMinute(u) ==
    {i \in DOMAIN logs : logs[i].user_id = u /\ now - logs[i].created_at <= 60}

OwnsActivePublic(u) ==
    \E c \in Present : /\ creds[c].user_id = u
                       /\ creds[c].is_public /\ creds[c].is_active

\* C9: the per-minute check rejects a request with 429 exactly when the user
\* is not an administrator and the user's usage logs of the last 60 seconds
\* number at least contributor_rpm (the user has an active public credential)
\* or base_rpm (otherwise).
C9_RateLimit ==
    ev.op = "rate" =>
        (ev.status = 429 <=>
            /\ ~users[ev.user_id].is_admin
            /\ Cardinality(LastMinute(ev.user_id)) >=
                  IF OwnsActivePublic(ev.user_id)
                  THEN settings.contributor_rpm ELSE settings.base_rpm)

\* A contributor is rejected once contributor_rpm requests were logged within
\* the minute (base_rpm had been passed before).
C9_Witness ==
    /\ ev.op = "rate" /\ ev.status = 429
    /\ OwnsActivePublic(ev.user_id)
    /\ Cardinality(LastMinute(ev.user_id)) = settings.contributor_rpm
    /\ settings.contributor_rpm > settings.base_rpm

\* C10: a request rejected by the per-minute rate limit leaves a usage log of
\* its own with status 429.
C10_RateLimitedIsLogged ==
    (ev.op = "rate" /\ ev.status = 429) =>
        \E i \in DOMAIN logs : /\ logs[i].user_id = ev.user_id
                               /\ logs[i].status_code = 429
                               /\ logs[i].created_at = now

\* --------------------------------------------- properties of the donations

\* A user's donation bonus: what the bonus_quota column holds plus what
\* daily_quota holds above the default quota.
DonationBonus(us, u) ==
    us[u].bonus_quota + us[u].daily_quota - settings.default_daily_quota

\* This step is an owner's call (upload, PATCH or donate) that leaves
\* credential c public, active and without an auth error on record, and c was
\* not public before.
Donated(c) ==
    /\ ev'.op \in {"upload", "patch", "donate"}
    /\ ~(creds[c].present /\ creds[c].is_public)
    /\ creds'[c].present /\ creds'[c].is_public /\ creds'[c].is_active
    /\ ~HasAuthErrorRecord(creds'[c].last_error)

\* C11: every step that takes a credential from not public to public while it
\* is active and not auth-errored (an owner's toggle, or a public upload that
\* verifies valid) raises the owner's donation bonus by exactly the reward of
\* the credential's tier: quota_flash + quota_25pro for tier 2.5, plus
\* quota_30pro for tier 3.
C11_DonationCredits ==
    [][\A c \in CredIds :
          Donated(c) =>
              DonationBonus(users', creds'[c].user_id)
                  - DonationBonus(users, creds'[c].user_id)
                  = PoolReward(creds'[c].model_tier)]_vars

\* This step ends the donation of credential c, which was public and active:
\* the owner takes it back or deletes it, an administrator deletes it, or an
\* auth failure disables it.
Undonated(c) ==
    /\ creds[c].present /\ creds[c].is_public /\ creds[c].is_active
    /\ \/ /\ ev'.op \in {"patch", "donate"}
          /\ creds'[c].present /\ ~creds'[c].is_public
       \/ /\ ev'.op \in {"delete", "admin delete"}
          /\ ~creds'[c].present
       \/ /\ ev'.op = "attempt"
          /\ creds'[c].present /\ ~creds'[c].is_active

\* C12: every step that ends the donation of a public credential (the owner's
\* toggle-off, a deletion by the owner or by an administrator, or the
\* auto-disablement on an auth failure) lowers the owner's donation bonus by
\* the reward of the credential's tier, floored at zero.
C12_ReverseDebits ==
    [][\A c \in CredIds :
          Undonated(c) =>
              DonationBonus(users', creds[c].user_id)
                  = Max(0, DonationBonus(users, creds[c].user_id)
                               - PoolReward(creds[c].model_tier))]_vars

\* C13: while lock_donate is enabled no owner call (PATCH with
\* is_public=false, or POST donate) takes an active credential from public to
\* not public.
C13_LockDonate ==
    [][\A c \in CredIds :
          (/\ settings.lock_donate
           /\ ev'.op \in {"patch", "donate"}
           /\ creds[c].present /\ creds[c].is_public /\ creds[c].is_active)
          => /\ creds'[c].is_public
             /\ users' = users]_vars

\* ---- donation toggling: an owner donating and taking back credentials
\* after an administrator has set the owner's daily quota.

ToggleUser == 1
ToggleProbes == {o \in ProbeOutcomes : o[1]}

InitToggle ==
    /\ InitStore
    /\ settings = BaseSettings
    /\ budget = [ops |-> ToggleOps, requests |-> 0, ticks |-> 0]

NextToggle ==
    \/ \E q \in CustomQuotas : UpdateUser(ToggleUser, q)
    \/ \E f \in QuotaFiles, p \in BOOLEAN, o \in ToggleProbes :
           UploadCredential(ToggleUser, f, p, o)
    \/ \E c \in CredIds, p \in {"true", "false"} :
           UpdateMyCredential(ToggleUser, c, p, "none")
    \/ \E c \in CredIds : DeleteMyCredential(ToggleUser, c)

SpecToggle == InitToggle /\ [][NextToggle]_vars

\* The last call was a PATCH with is_public=true that donated credential
\* ev.cred, which was not public, and the credential is still active.
JustDonated ==
    /\ ev.op = "patch" /\ ev.detail = "true" /\ ev.status = 200
    /\ ~ev.before.is_public
    /\ creds[ev.cred].present /\ creds[ev.cred].is_public
    /\ creds[ev.cred].is_active

\* This step is the PATCH with is_public=false that takes the credential
\* donated by the last call back.
TakesBack ==
    /\ ev'.op = "patch" /\ ev'.detail = "false" /\ ev'.status = 200
    /\ ev'.cred = ev.cred /\ ev'.user_id = ev.user_id
    /\ ~creds'[ev.cred].is_public

\* C14: with lock_donate off, donating an active credential that was not
\* public and then taking it back leaves the owner's quota at the value it had
\* before the donation, whatever that value was (an administrator may have
\* set it).
C14_ToggleIdempotent ==
    [][(~settings.lock_donate /\ JustDonated /\ TakesBack)
          => /\ users'[ev.user_id].daily_quota = ev.before.daily_quota
             /\ users'[ev.user_id].bonus_quota = ev.before.bonus_quota]_vars

\* ---- the dispatch loop: one owner's credentials serving that owner's
\* streaming and non-streaming chat requests while tokens and upstream fail.

DispatchUser == 1
DispatchModel == "gemini-2.5-flash"
DispatchFiles ==
    {f \in UploadFiles : f.project_id # ""}
        \cup {[email |-> "d@x", refresh_token |-> "rt-d", project_id |-> "proj-d"]}
DispatchErrors ==
    {"API Error 403: PERMISSION_DENIED", "API Error 503: UNAVAILABLE",
     "API Error 400: INVALID_ARGUMENT"}
\* The owner donates the credential of this account and keeps the others.
DonatedEmail == "a@x"
\* What the bonus_quota column of the owner's row holds at the start.
DispatchBonus == {0, 1, 5}

InitDispatch ==
    /\ \E b \in DispatchBonus :
           users = [u \in UserIds |->
                       IF u = DispatchUser
                       THEN [NewUser(u) EXCEPT !.bonus_quota = b]
                       ELSE NewUser(u)]
    /\ creds = [c \in CredIds |-> NoCred]
    /\ logs = <<>>
    /\ now = StartTime
    /\ reqs = [r \in ReqIds |-> IdleReq]
    /\ ev = NoEv
    /\ api_keys = {DefaultKey(u) : u \in UserIds}
    /\ key_calls = [k \in KeyCallIds |-> IdleKeyCall]
    /\ calls = [i \in CallIds |-> IdleCall]
    /\ settings = BaseSettings
    /\ budget = [ops |-> DispatchOps, requests |-> DispatchRequests,
                 ticks |-> 0]

NextDispatch ==
    \/ \E f \in DispatchFiles :
           UploadCredential(DispatchUser, f, f.email = DonatedEmail,
                            <<TRUE, "2.5">>)
    \/ \E r \in ReqIds, stream \in BOOLEAN :
           NewChatRequest(r, DispatchUser, DispatchModel, stream)
    \/ \E r \in ReqIds : RateCheck(r)
    \/ \E r \in ReqIds : Select(r)
    \/ \E r \in ReqIds : AttemptTokenFail(r)
    \/ \E r \in ReqIds : AttemptSuccess(r)
    \/ \E r \in ReqIds, e \in DispatchErrors : AttemptError(r, e)
    \/ \E r \in ReqIds : StreamOpen(r)
    \/ \E r \in ReqIds : StreamSuccess(r)
    \/ \E r \in ReqIds, e \in DispatchErrors : StreamError(r, e)
    \/ \E r \in ReqIds : StreamReselect(r)
    \/ \E r \in ReqIds, t \in BOOLEAN : StreamToken(r, t)

SpecDispatch == InitDispatch /\ [][NextDispatch]_vars

\* ------------------------------------------- properties of the dispatch loop

\* The donation reward of a tier: quota_flash + quota_25pro, and quota_30pro
\* on top for tier 3.
DonationReward(model_tier) ==
    settings.quota_flash + settings.quota_25pro
        + (IF model_tier = "3" THEN settings.quota_30pro ELSE 0)

\* An error text that names an auth failure.
NamesAuthFailure(error) ==
    \E t \in {"401", "403", "PERMISSION_DENIED"} : TextHas(error, t)

\* This step records a failure (a token refresh or an upstream call that
\* failed) for credential c, which is active.
FailureRecorded(c) ==
    /\ ev'.op \in {"attempt", "stream"}
    /\ ev'.error # ""
    /\ ev'.cred = c
    /\ reqs[ev'.req].pc \in {"call", "stream"}
    /\ reqs[ev'.req].credential = c
    /\ creds[c].present /\ creds[c].is_active

\* C15: a step that records a failure for an active credential always adds
\* one to failed_requests and stores the error text as last_error; when the
\* text contains 401, 403 or PERMISSION_DENIED the credential becomes
\* inactive and, if it is public and owned, the owner's bonus_quota drops by
\* the donation reward of the credential's tier, floored at zero; for any
\* other text is_active and every bonus_quota stay as they were.
C15_RecordFailure ==
    [][\A c \in CredIds :
          FailureRecorded(c) =>
              /\ creds'[c].failed_requests = creds[c].failed_requests + 1
              /\ creds'[c].last_error = ev'.error
              /\ IF NamesAuthFailure(ev'.error)
                 THEN /\ ~creds'[c].is_active
                      /\ \A u \in UserIds :
                            users'[u].bonus_quota =
                                IF creds[c].is_public /\ creds[c].user_id = u
                                THEN Max(0, users[u].bonus_quota
                                             - DonationReward(creds[c].model_tier))
                                ELSE users[u].bonus_quota
                 ELSE /\ creds'[c].is_active
                      /\ \A u \in UserIds :
                            users'[u].bonus_quota = users[u].bonus_quota]_vars

\* An auth failure has just disabled a donated credential and taken its
\* reward from a bonus that started at 5.
C15_Witness ==
    /\ ev.op \in {"attempt", "stream"}
    /\ NamesAuthFailure(ev.error)
    /\ ev.cred \in Present
    /\ creds[ev.cred].is_public /\ ~creds[ev.cred].is_active
    /\ creds[ev.cred].last_error = ev.error
    /\ users[creds[ev.cred].user_id].bonus_quota = 3

\* C16: one chat-completions request never has more than
\* 1 + error_retry_count credentials selected for it (every selected
\* credential is one attempt: a token refresh and, if that succeeds, an
\* upstream call), whether the request streams or not.
C16_AttemptLimit ==
    \A r \in ReqIds :
        Cardinality(reqs[r].tried) <= 1 + settings.error_retry_count

\* This step is an upstream call of request r that failed.
UpstreamFailed(r) ==
    /\ ev'.op \in {"attempt", "stream"}
    /\ ev'.req = r
    /\ ev'.error \notin {"", TokenRefreshFailed}
    /\ reqs[r].pc \in {"call", "stream"}
    /\ reqs[r].endpoint = "chat"

\* An error the dispatch loop is to retry: HTTP code 404, 429, 500 or 503,
\* or a text containing RESOURCE_EXHAUSTED or NOT_FOUND.
Retryable(error) ==
    \/ StatusOf(error) \in {404, 429, 500, 503}
    \/ TextHas(error, "RESOURCE_EXHAUSTED")
    \/ TextHas(error, "NOT_FOUND")

\* Fewer than 1 + error_retry_count credentials have been selected for r.
AttemptsRemain(r) ==
    Cardinality(reqs[r].tried) < 1 + settings.error_retry_count

\* C17: when an upstream call fails, the loop goes on to another credential
\* exactly if the error is retryable and attempts remain; an upstream 401 or
\* 403 leaves the credential disabled; an error that is not retryable ends
\* the request with the upstream message, as HTTP 500 or, on a stream that
\* has started, as the final error frame.
C17_RetryRule ==
    [][\A r \in ReqIds :
          UpstreamFailed(r) =>
              /\ (ev'.detail = "retry")
                     <=> (Retryable(ev'.error) /\ AttemptsRemain(r))
              /\ StatusOf(ev'.error) \in {401, 403}
                     => ~creds'[ev'.cred].is_active
              /\ ~Retryable(ev'.error)
                     => /\ reqs'[r].pc = "idle"
                        /\ \/ ev'.status = 500
                           \/ ev'.detail = "error frame"]_vars

\* The same rule for requests that do not stream.
C17_RetryRuleNoStream ==
    [][\A r \in ReqIds :
          (UpstreamFailed(r) /\ ~reqs[r].stream) =>
              /\ (ev'.detail = "retry")
                     <=> (Retryable(ev'.error) /\ AttemptsRemain(r))
              /\ StatusOf(ev'.error) \in {401, 403}
                     => ~creds'[ev'.cred].is_active
              /\ ~Retryable(ev'.error)
                     => /\ reqs'[r].pc = "idle"
                        /\ ev'.status = 500]_vars

\* This step is the outcome of an upstream call dispatched for request r:
\* the call succeeded or failed (a failed token refresh dispatches nothing).
UpstreamAnswered(r) ==
    /\ ev'.op \in {"attempt", "stream"}
    /\ ev'.req = r
    /\ ev'.error # TokenRefreshFailed
    /\ reqs[r].pc \in {"call", "stream"}

\* C18: every upstream call dispatched for a request adds one UsageLog row
\* for the credential it used, also when the call fails and the request then
\* succeeds on another credential (503 on A, then 200 on B: rows for A and
\* for B).
C18_LogEveryAttempt ==
    [][\A r \in ReqIds :
          UpstreamAnswered(r) =>
              /\ Len(logs') = Len(logs) + 1
              /\ logs'[Len(logs')].credential_id = reqs[r].credential
              /\ logs'[Len(logs')].user_id = reqs[r].user_id]_vars

\* This step is the failure of the last of the
\* 1 + error_retry_count attempts of request r, none of which succeeded.
LastAttemptFailed(r) ==
    /\ ev'.op \in {"attempt", "stream"}
    /\ ev'.req = r
    /\ reqs[r].pc \in {"call", "stream"}
    /\ \/ ev'.error = TokenRefreshFailed
       \/ Retryable(ev'.error)
    /\ Cardinality(reqs[r].tried) = 1 + settings.error_retry_count

\* C19: when the last of the 1 + error_retry_count attempts of a request
\* fails with a retryable upstream error or a token-refresh failure, the
\* request ends and the client receives HTTP 503.
C19_Exhausted503 ==
    [][\A r \in ReqIds :
          (LastAttemptFailed(r) /\ ~reqs[r].stream) =>
              /\ reqs'[r].pc = "idle"
              /\ ev'.status = 503]_vars

\* The tier-3 credentials that are in scope for request r: active, with a
\* project, and allowed to r's user by the sharing mode.
Tier3InScope(r) ==
    {c \in EligibleButTier(r) : creds[c].model_tier = "3"}

StreamEndpoints == {"chat", "gemini stream"}
StreamErrors ==
    {"API Error 403: PERMISSION_DENIED", "API Error 503: UNAVAILABLE",
     "ReadTimeout"}

InitStream ==
    /\ InitStore
    /\ settings = BaseSettings
    /\ budget = [ops |-> StreamOps, requests |-> StreamRequests, ticks |-> 0]

NextStream ==
    \/ \E f \in PoolFiles :
           UploadCredential(DispatchUser, f, FALSE, <<TRUE, "2.5">>)
    \/ \E r \in ReqIds, e \in StreamEndpoints :
           Receive(r, DispatchUser, DispatchModel, e, TRUE)
    \/ \E r \in ReqIds : RateCheck(r)
    \/ \E r \in ReqIds : Select(r)
    \/ \E r \in ReqIds : AttemptTokenFail(r)
    \/ \E r \in ReqIds : StreamOpen(r)
    \/ \E r \in ReqIds : StreamSuccess(r)
    \/ \E r \in ReqIds, e \in StreamErrors : StreamError(r, e)
    \/ \E r \in ReqIds : StreamReselect(r)
    \/ \E r \in ReqIds, t \in BOOLEAN : StreamToken(r, t)
    \/ \E r \in ReqIds : GeminiStreamOpen(r)
    \/ \E r \in ReqIds : GeminiStreamSuccess(r)
    \/ \E r \in ReqIds, e \in StreamErrors : GeminiStreamRefused(r, e)
    \/ \E r \in ReqIds, e \in StreamErrors : GeminiStreamError(r, e)

SpecStream == InitStream /\ [][NextStream]_vars

\* -------------------------------------------- properties of the streams

\* This step ends in failure a streaming response of request r that had
\* begun (the StreamingResponse had been returned).
StreamFailed(r) ==
    /\ reqs[r].pc \in {"stream", "reselect", "retoken", "gstream"}
    /\ reqs'[r].pc = "idle"
    /\ ev'.req = r
    /\ ev'.error # ""

\* C21: a streaming response that fails after it has begun ends with the
\* final data: {"error": ...} frame, and a UsageLog row with a status other
\* than 200 is written for it.
C21_StreamFailureFrame ==
    [][\A r \in ReqIds :
          StreamFailed(r) =>
              /\ ev'.detail = "error frame"
              /\ Len(logs') = Len(logs) + 1
              /\ logs'[Len(logs')].user_id = reqs[r].user_id
              /\ logs'[Len(logs')].status_code # 200]_vars

\* The same for the streams of chat_completions alone.
ChatStreamFailureFrame ==
    [][\A r \in ReqIds :
          (StreamFailed(r) /\ reqs[r].endpoint = "chat") =>
              /\ ev'.detail = "error frame"
              /\ Len(logs') = Len(logs) + 1
              /\ logs'[Len(logs')].user_id = reqs[r].user_id
              /\ logs'[Len(logs')].status_code # 200]_vars

\* ---- API keys: one account creating, deleting and regenerating keys, with
\* two POST /api-keys calls that may be in flight together.

KeyUser == 1
KeyIds == 1..(2 + KeyOps)

InitKeys ==
    /\ InitStore
    /\ settings = BaseSettings
    /\ budget = [ops |-> KeyOps, requests |-> 0, ticks |-> 0]

NextKeys ==
    \/ \E k \in KeyCallIds : CreateApiKeyCount(k, KeyUser)
    \/ \E k \in KeyCallIds : CreateApiKeyInsert(k)
    \/ \E i \in KeyIds : DeleteApiKey(KeyUser, i)
    \/ \E i \in KeyIds : RegenerateApiKey(KeyUser, i)
    \/ DiscordUserKey(KeyUser)

SpecKeys == InitKeys /\ [][NextKeys]_vars

\* ---------------------------------------------- properties of the API keys

\* C22: in every reachable state each user owns at most 5 API keys.
C22_AtMostFiveKeys ==
    \A u \in UserIds : KeyCount(u) <= MaxApiKeys

\* The same runs with one POST /api-keys call at a time.
NextKeysSerial ==
    \/ CreateApiKeyCount(1, KeyUser)
    \/ CreateApiKeyInsert(1)
    \/ \E i \in KeyIds : DeleteApiKey(KeyUser, i)
    \/ \E i \in KeyIds : RegenerateApiKey(KeyUser, i)
    \/ DiscordUserKey(KeyUser)

SpecKeysSerial == InitKeys /\ [][NextKeysSerial]_vars

\* ---- C23: donation only while active.

\* A credential that was not donated before the step and is donated after.
BecomesPublic(c) ==
    /\ ~(creds[c].present /\ creds[c].is_public)
    /\ creds'[c].present /\ creds'[c].is_public

\* The credential is fit for donation at the moment of the step: a row the
\* step creates is active, a row that existed was active and carried no
\* authentication error.
FitForDonation(c) ==
    IF creds[c].present
    THEN creds[c].is_active /\ ~HasAuthErrorRecord(creds[c].last_error)
    ELSE creds'[c].is_active

\* C23: whenever an upload, PATCH /credentials/{id} or POST
\* /credentials/{id}/donate turns a credential's is_public from false to
\* true, the credential is active at that moment; an inactive or
\* auth-errored credential is never donated.
C23_DonateOnlyActive ==
    [][\A c \in CredIds :
          (ev'.op \in {"upload", "patch", "donate"} /\ BecomesPublic(c))
              => FitForDonation(c)]_vars

\* The same rule for the two handlers of auth.py alone.
UploadPatchDonateOnlyActive ==
    [][\A c \in CredIds :
          (ev'.op \in {"upload", "patch"} /\ BecomesPublic(c))
              => FitForDonation(c)]_vars

\* ---- selection: uploads of usable and unusable credentials (the pool is
\* filled before the first request is admitted), then chat
\* requests with retries while the flash cooldown (60 s) runs or has run out.

SelectUser == 1
SelectModels == {"gemini-2.5-flash"}
SelectErrors == {"API Error 403: PERMISSION_DENIED",
                 "API Error 503: UNAVAILABLE"}
\* Verification outcomes of the uploads: invalid, or valid at tier 2.5.
SelectProbes == {<<FALSE, "2.5">>, <<TRUE, "2.5">>}
SelectCooldown == 60
\* Who uploads which file: b@x is the other account's donation.
SelectUploader(f) == IF f.email = "b@x" THEN AdminId ELSE SelectUser

InitSelect ==
    /\ InitStore
    /\ \E mode \in PoolModes :
           settings = [BaseSettings EXCEPT !.credential_pool_mode = mode,
                                           !.cd_flash = SelectCooldown,
                                           !.base_rpm = 5,
                                           !.contributor_rpm = 5]
    /\ budget = [ops |-> SelectOps, requests |-> SelectRequests,
                 ticks |-> SelectTicks]

NextSelect ==
    \/ /\ budget.requests = SelectRequests
       /\ \E f \in UploadFiles, o \in SelectProbes :
              UploadCredential(SelectUploader(f), f, TRUE, o)
    \/ \E r \in ReqIds, m \in SelectModels :
           NewRequest(r, SelectUser, m, "chat")
    \/ \E r \in ReqIds : RateCheck(r)
    \/ \E r \in ReqIds : Select(r)
    \/ \E r \in ReqIds : AttemptSuccess(r)
    \/ \E r \in ReqIds, e \in SelectErrors : AttemptError(r, e)
    \/ Tick(SelectCooldown)

SpecSelect == InitSelect /\ [][NextSelect]_vars

\* The step is a call of get_available_credential by request r that
\* returned credential c.
Selects(r, c) ==
    /\ reqs[r].pc \in {"select", "reselect"}
    /\ ev'.op \in {"select", "reselect"}
    /\ ev'.cred = c

\* C24: selection never returns a credential that is inactive, has an empty
\* project_id or is in excluded_ids, in any sharing mode and also when it
\* falls back to a credential in cooldown.
C24_NeverIneligible ==
    [][\A r \in ReqIds, c \in CredIds :
          Selects(r, c) =>
              /\ creds[c].present /\ creds[c].is_active
              /\ creds[c].project_id # ""
              /\ c \notin reqs[r].tried]_vars

\* A retry has just selected, through the all-in-cooldown fallback, a
\* credential used before at this very second, while a credential that is
\* inactive or without project_id sits in the store.
C24_Witness ==
    /\ ev.op = "select" /\ ev.cred # 0
    /\ reqs[1].retry_attempt > 0
    /\ budget.ticks = SelectTicks
    /\ creds[ev.cred].total_requests >= 2
    /\ \E c \in Present : ~creds[c].is_active

\* ---- C25: the tried set of a chat request.

\* Request r is a chat-completions request being served.
ChatInFlight(r) == reqs[r].pc # "idle" /\ reqs[r].endpoint = "chat"

\* C25: within one chat request no credential is attempted twice: a
\* selection of the retry loop or of the streaming generator returns a
\* credential outside the tried set and adds it to the set before anything
\* else happens, the set never loses a member while the request is served,
\* and the credential an attempt uses is always a member.
C25_NeverTriedTwice ==
    [][\A r \in ReqIds :
          /\ \A c \in CredIds :
                (Selects(r, c) /\ reqs[r].endpoint = "chat") =>
                    /\ c \notin reqs[r].tried
                    /\ reqs'[r].tried = reqs[r].tried \cup {c}
          /\ (ChatInFlight(r) /\ ChatInFlight(r)') =>
                reqs[r].tried \subseteq reqs'[r].tried
          /\ (ChatInFlight(r)' /\ reqs'[r].credential # 0) =>
                reqs'[r].credential \in reqs'[r].tried
          /\ (ChatInFlight(r)' /\ reqs'[r].new_credential # 0) =>
                reqs'[r].new_credential \in reqs'[r].tried]_vars

\* The streaming generator has just been given a second credential after
\* the first one failed.
C25_Witness ==
    /\ ev.op = "reselect" /\ ev.cred # 0
    /\ reqs[1].tried = {reqs[1].credential, ev.cred}
    /\ reqs[1].credential # ev.cred

\* ---- C26: cooldown filtering.

\* The candidates of request r's next selection, and those of them out of
\* cooldown for the request's model group.
CandidatesOf(r) ==
    Candidates(reqs[r].user_id, reqs[r].user_has_public, reqs[r].model,
               reqs[r].tried)

OutOfCooldown(r) ==
    {c \in CandidatesOf(r) :
        LET last == LastUsedOfGroup(creds[c], GetModelGroup(reqs[r].model))
        IN  \/ last = NULL
            \/ now - last >= GetCdSeconds(GetModelGroup(reqs[r].model))}

Filtered(r) == OutOfCooldown(r)

\* C27: within the filtered set selection returns the credential with the
\* smallest last_used_at, never-used (NULL) credentials counting as
\* smallest, and among credentials that tie on last_used_at the one with
\* the smallest id.
C27_SmallestThenId ==
    [][\A r \in ReqIds :
          (reqs[r].pc \in {"select", "reselect"}
              /\ ev'.op \in {"select", "reselect"}
              /\ Filtered(r) # {}) =>
          /\ ev'.cred \in Filtered(r)
          /\ \A d \in Filtered(r) :
                \/ creds[ev'.cred].last_used_at < creds[d].last_used_at
                \/ /\ creds[ev'.cred].last_used_at = creds[d].last_used_at
                   /\ ev'.cred <= d]_vars

\* The same without the tie-break: the returned credential has the smallest
\* last_used_at of the filtered set, NULL first.
SmallestLastUsedAt ==
    [][\A r \in ReqIds :
          (reqs[r].pc \in {"select", "reselect"}
              /\ ev'.op \in {"select", "reselect"}
              /\ Filtered(r) # {}) =>
          /\ ev'.cred \in Filtered(r)
          /\ \A d \in Filtered(r) :
                creds[ev'.cred].last_used_at <= creds[d].last_used_at]_vars

\* ---- round robin: one user's own credentials, cooldowns off (cd_flash =
\* 0), chat requests served one after another, streaming or not, with
\* upstream errors that leave the credential active.

RobinUser == 1
RobinModel == "gemini-2.5-flash"
RobinErrors == {"API Error 503: UNAVAILABLE",
                "API Error 400: INVALID_ARGUMENT"}

\* The wall clock has moved on since the last write of a last_used_at:
\* datetime.utcnow() read by two successive commits gives two instants.
ClockAdvanced == \A c \in Present : creds[c].last_used_at < now

\* No request has been admitted yet.
BeforeTraffic ==
    /\ budget.requests = RobinRequests
    /\ \A r \in ReqIds : reqs[r].pc = "idle"

\* The deployment's limits are set high enough not to stop the traffic.
RobinSettings ==
    [BaseSettings EXCEPT !.base_rpm = 5, !.contributor_rpm = 5,
                         !.default_daily_quota = 10]

InitRobin ==
    /\ users = [u \in UserIds |->
                  [NewUser(u) EXCEPT
                       !.daily_quota = RobinSettings.default_daily_quota]]
    /\ creds = [c \in CredIds |-> NoCred]
    /\ logs = <<>>
    /\ now = StartTime
    /\ reqs = [r \in ReqIds |-> IdleReq]
    /\ ev = NoEv
    /\ api_keys = {DefaultKey(u) : u \in UserIds}
    /\ key_calls = [k \in KeyCallIds |-> IdleKeyCall]
    /\ calls = [i \in CallIds |-> IdleCall]
    /\ settings = RobinSettings
    /\ budget = [ops |-> RobinOps, requests |-> RobinRequests,
                 ticks |-> RobinTicks]

NextRobin ==
    \/ /\ BeforeTraffic
       /\ \E f \in DispatchFiles :
              UploadCredential(RobinUser, f, FALSE, <<TRUE, "2.5">>)
    \/ \E r \in ReqIds, stream \in BOOLEAN :
           NewChatRequest(r, RobinUser, RobinModel, stream)
    \/ \E r \in ReqIds : RateCheck(r)
    \/ \E r \in ReqIds : ClockAdvanced /\ Select(r)
    \/ \E r \in ReqIds : AttemptTokenFail(r)
    \/ \E r \in ReqIds : ClockAdvanced /\ AttemptSuccess(r)
    \/ \E r \in ReqIds, e \in RobinErrors : ClockAdvanced /\ AttemptError(r, e)
    \/ \E r \in ReqIds : StreamOpen(r)
    \/ \E r \in ReqIds : ClockAdvanced /\ StreamSuccess(r)
    \/ \E r \in ReqIds, e \in RobinErrors : ClockAdvanced /\ StreamError(r, e)
    \/ \E r \in ReqIds : ClockAdvanced /\ StreamReselect(r)
    \/ \E r \in ReqIds, t \in BOOLEAN : ClockAdvanced /\ StreamToken(r, t)
    \/ Tick(1)

SpecRobin == InitRobin /\ [][NextRobin]_vars

\* The credentials the round robin goes over, and their number k.
Eligible == Candidates(RobinUser, FALSE, RobinModel, {})

\* When credential c was last selected for the model group (NULL: never).
\* Only get_available_credential writes last_used_flash.
LastSelected(c) == creds[c].last_used_flash

\* The credentials returned by the last k - 1 selections: those after whose
\* last selection fewer than k - 1 other credentials have been selected.
RecentPicks ==
    {d \in Eligible :
        /\ LastSelected(d) # NULL
        /\ Cardinality({x \in Eligible : LastSelected(x) > LastSelected(d)})
               < Cardinality(Eligible) - 1}

\* C28: fair round robin: with k eligible credentials, cooldowns off and
\* requests served one after another, any k consecutive selections return
\* k distinct credentials: a selection never returns a credential that one
\* of the k - 1 selections before it returned.
C28_RoundRobin ==
    [][\A r \in ReqIds, c \in CredIds :
          Selects(r, c) => c \notin RecentPicks]_vars

\* The same traffic, but every credential the streaming generator switches
\* to yields an access token.
NextRobinTokens ==
    /\ NextRobin
    /\ \A r \in ReqIds : reqs[r].pc = "retoken" => reqs'[r].pc = "stream"

SpecRobinTokens == InitRobin /\ [][NextRobinTokens]_vars

\* ---- failure handling commit by commit: handle_credential_failure first
\* calls mark_credential_error, which commits, and then, for an
\* authentication error, deactivates the credential and debits its owner in
\* a commit of its own.  AttemptError takes the two commits in one step;
\* the two actions below take them one at a time.

\* handle_credential_failure after mark_credential_error has returned:
\* <<credentials, users>> afterwards.
DisableOnAuthError(credential_id, error) ==
    LET cred == creds[credential_id]
    IN  IF IsAuthError(error) /\ cred.present /\ cred.is_active
        THEN <<[creds EXCEPT ![credential_id].is_active = FALSE],
               IF cred.is_public /\ cred.user_id # 0
               THEN [users EXCEPT ![cred.user_id].bonus_quota =
                        Max(0, @ - PoolReward(cred.model_tier))]
               ELSE users>>
        ELSE <<creds, users>>

\* chat_completions: the upstream call fails with error text e and
\* mark_credential_error commits.
AttemptErrorMark(r, e) ==
    /\ reqs[r].pc = "call" /\ ~reqs[r].stream /\ reqs[r].endpoint = "chat"
    /\ creds' = MarkCredentialError(creds, reqs[r].credential, e)
    /\ reqs' = [reqs EXCEPT ![r].pc = "failing", ![r].last_error = e]
    /\ ev' = [Ev("mark", r, reqs[r].user_id, reqs[r].credential,
                 reqs[r].model, 0, "marked") EXCEPT !.error = e]
    /\ UNCHANGED <<calls, api_keys, key_calls, settings, users, logs, now, budget>>

\* chat_completions: the rest of handle_credential_failure, then the retry
\* test and either "continue" or log_usage(500) and the 500 answer.
AttemptErrorHandle(r) ==
    /\ reqs[r].pc = "failing"
    /\ LET c == reqs[r].credential
           e == reqs[r].last_error
           failed == DisableOnAuthError(c, e)
       IN  /\ users' = failed[2]
           /\ IF ShouldRetry(e)
                  /\ reqs[r].retry_attempt < settings.error_retry_count
              THEN /\ creds' = failed[1]
                   /\ logs' = logs
                   /\ Continue(r, e)
              ELSE /\ creds' = CountUse(failed[1], c)
                   /\ logs' = Append(logs, LogRow(r, 500))
                   /\ reqs' = [reqs EXCEPT ![r] = IdleReq]
                   /\ ev' = [Ev("attempt", r, reqs[r].user_id, c,
                                reqs[r].model, 500, "error")
                                EXCEPT !.error = e]
    /\ UNCHANGED <<calls, api_keys, key_calls, settings, now, budget>>

InitFailure ==
    /\ InitStore
    /\ settings = BaseSettings
    /\ budget = [ops |-> FailureOps, requests |-> FailureRequests,
                 ticks |-> 0]

NextFailure ==
    \/ \E f \in PoolFiles, p \in BOOLEAN :
           UploadCredential(DispatchUser, f, p, <<TRUE, "2.5">>)
    \/ \E r \in ReqIds : NewRequest(r, DispatchUser, DispatchModel, "chat")
    \/ \E r \in ReqIds : RateCheck(r)
    \/ \E r \in ReqIds : Select(r)
    \/ \E r \in ReqIds : AttemptSuccess(r)
    \/ \E r \in ReqIds, e \in DispatchErrors : AttemptErrorMark(r, e)
    \/ \E r \in ReqIds : AttemptErrorHandle(r)

SpecFailure == InitFailure /\ [][NextFailure]_vars

\* C30: record_failure is atomic: the count of the failure, the error text,
\* the deactivation and the debit of the owner take effect together, so the
\* store never shows a credential whose recorded failure is an
\* authentication error while the credential is still active.
C30_FailureAtomic ==
    \A c \in Present :
        (creds[c].failed_requests > 0 /\ IsAuthError(creds[c].last_error))
            => ~creds[c].is_active

\* ---- what a selection writes: one user's two credentials serve flash and
\* pro requests, a minute apart or not.

WritesModels == {"gemini-2.5-flash", "gemini-2.5-pro"}
WritesErrors == {"API Error 503: UNAVAILABLE"}

InitWrites ==
    /\ InitStore
    /\ settings = [BaseSettings EXCEPT !.cd_flash = SelectCooldown,
                                       !.base_rpm = 5, !.contributor_rpm = 5]
    /\ budget = [ops |-> WritesOps, requests |-> WritesRequests,
                 ticks |-> WritesTicks]

NextWrites ==
    \/ \E f \in PoolFiles :
           UploadCredential(SelectUser, f, FALSE, <<TRUE, "2.5">>)
    \/ \E r \in ReqIds, m \in WritesModels :
           NewRequest(r, SelectUser, m, "chat")
    \/ \E r \in ReqIds : RateCheck(r)
    \/ \E r \in ReqIds : Select(r)
    \/ \E r \in ReqIds : AttemptSuccess(r)
    \/ \E r \in ReqIds, e \in WritesErrors : AttemptError(r, e)
    \/ Tick(SelectCooldown)

SpecWrites == InitWrites /\ [][NextWrites]_vars

\* ---- C29: what a selection writes.

\* The last_used_* columns of the model groups other than group g.
OtherGroups(cred, g) ==
    [flash |-> IF g = "flash" THEN NULL ELSE cred.last_used_flash,
     pro |-> IF g = "pro" THEN NULL ELSE cred.last_used_pro,
     g30 |-> IF g = "30" THEN NULL ELSE cred.last_used_30]

\* C29: every successful selection, in the very step that returns the
\* credential and not when the request completes, sets the credential's
\* last_used_at and the last_used_* column of the request's model group to
\* now and adds one to total_requests, all in one commit; the last_used_*
\* columns of the other two groups and every other credential stay as they
\* were.
C29_SelectionWrites ==
    [][\A r \in ReqIds, c \in CredIds :
          Selects(r, c) =>
              LET g == GetModelGroup(reqs[r].model)
              IN  /\ creds'[c].last_used_at = now
                  /\ LastUsedOfGroup(creds'[c], g) = now
                  /\ creds'[c].total_requests = creds[c].total_requests + 1
                  /\ OtherGroups(creds'[c], g) = OtherGroups(creds[c], g)
                  /\ \A d \in CredIds \ {c} : creds'[d] = creds[d]
                  /\ reqs'[r].pc \in {"call", "retoken"}]_vars

\* A credential used for a flash request a minute ago has just been
\* selected for a pro request, with another credential in the store.
C29_Witness ==
    /\ ev.op = "select" /\ ev.cred # 0
    /\ ev.model = "gemini-2.5-pro"
    /\ creds[ev.cred].last_used_pro = now
    /\ creds[ev.cred].last_used_flash # NULL
    /\ creds[ev.cred].last_used_flash < now
    /\ reqs[1].pc = "call"
    /\ \E d \in Present \ {ev.cred} : creds[d].is_active

\* ---- rejected requests: requests without a usable key, by a disabled
\* account, beyond the daily quota or beyond the per-minute rate, among
\* requests that are served.

\* get_user_from_api_key: the request carries no API key, or a key that
\* resolves to no user (401).
ReceiveNoKey(r) ==
    /\ reqs[r].pc = "idle"
    /\ budget.requests > 0
    /\ ev' = Ev("auth", r, 0, 0, "", 401, "no key")
    /\ Spend("requests")
    /\ UNCHANGED <<calls, api_keys, key_calls, settings, users, creds, logs, now, reqs>>

\* The account the administrator may have disabled.
RejectUser == 1

InitReject ==
    /\ \E active \in BOOLEAN :
           users = [u \in UserIds |->
                       [NewUser(u) EXCEPT
                            !.is_active = IF u = RejectUser THEN active ELSE TRUE]]
    /\ creds = [c \in CredIds |-> NoCred]
    /\ logs = <<>>
    /\ now = StartTime
    /\ reqs = [r \in ReqIds |-> IdleReq]
    /\ ev = NoEv
    /\ api_keys = {DefaultKey(u) : u \in UserIds}
    /\ key_calls = [k \in KeyCallIds |-> IdleKeyCall]
    /\ calls = [i \in CallIds |-> IdleCall]
    /\ settings = BaseSettings
    /\ budget = [ops |-> RejectOps, requests |-> RejectRequests, ticks |-> 0]

NextReject ==
    \/ \E u \in UserIds, f \in QuotaFiles, p \in BOOLEAN, o \in QuotaProbes :
           UploadCredential(u, f, p, o)
    \/ \E r \in ReqIds, u \in UserIds, m \in QuotaModels, e \in Endpoints :
           NewRequest(r, u, m, e)
    \/ \E r \in ReqIds : ReceiveNoKey(r)
    \/ \E r \in ReqIds : RateCheck(r)
    \/ \E r \in ReqIds : Select(r)
    \/ \E r \in ReqIds : AttemptSuccess(r)
    \/ \E r \in ReqIds, e \in QuotaErrors : AttemptError(r, e)

SpecReject == InitReject /\ [][NextReject]_vars

\* The step rejects a request in get_user_from_api_key or in the rate check.
Rejects ==
    /\ ev'.op \in {"auth", "rate"}
    /\ ev'.status \in {401, 403, 429}

\* C39: a request rejected during authentication, the daily-quota check or
\* the per-minute rate check (401, 403 or 429) leaves every credential row
\* and every user's quota as they were, and no request holds a credential
\* before its checks have passed.
C39_RejectionWritesNothing ==
    [][/\ Rejects => (creds' = creds /\ users' = users)
       /\ \A r \in ReqIds :
             reqs'[r].pc \in {"idle", "rate", "select"} =>
                 reqs'[r].credential = 0]_vars

\* A request has just been turned away by the rate check although a
\* credential that served a request before is in the pool.
C39_Witness ==
    /\ ev.op = "rate" /\ ev.status = 429
    /\ \E c \in Present : creds[c].is_active /\ creds[c].total_requests > 0

\* ---- C37: what total_requests counts.

\* The number of selections of credential c the step makes.
SelectionsOf(c) == IF \E r \in ReqIds : Selects(r, c) THEN 1 ELSE 0

\* C37: total_requests of a credential grows by exactly one per upstream
\* attempt made with it, so that between requests it equals the number of
\* times the credential was selected: every step adds to it the number of
\* selections of the credential the step makes (the counter never goes
\* down, so a step that adds more is never made up for).
C37_CountsSelections ==
    [][\A c \in CredIds :
          (creds[c].present /\ creds'[c].present) =>
              creds'[c].total_requests
                  = creds[c].total_requests + SelectionsOf(c)]_vars

\* The same for the selection steps alone.
SelectionAddsOne ==
    [][\A c \in CredIds :
          (creds[c].present /\ SelectionsOf(c) = 1) =>
              creds'[c].total_requests = creds[c].total_requests + 1]_vars

\* ---- tiers of the credentials behind the logs: uploads of either tier,
\* requests for a tier-3 and a tier-2.5 model, and owners and administrators
\* verifying or re-tiering credentials in between.

InitTier ==
    /\ InitStore
    /\ settings = [BaseSettings EXCEPT !.base_rpm = 5, !.contributor_rpm = 5]
    /\ budget = [ops |-> TierOps, requests |-> TierRequests, ticks |-> 0]

NextTier ==
    \/ \E f \in QuotaFiles, o \in ProbeOutcomes :
           UploadCredential(DispatchUser, f, FALSE, o)
    \/ \E c \in CredIds, o \in VerifyOutcomes :
           VerifyMyCredential(DispatchUser, c, o)
    \/ \E c \in CredIds, t \in Tiers : SetCredentialTier(c, t)
    \/ \E r \in ReqIds, m \in PoolModels :
           NewRequest(r, DispatchUser, m, "chat")
    \/ \E r \in ReqIds : RateCheck(r)
    \/ \E r \in ReqIds : Select(r)
    \/ \E r \in ReqIds : AttemptSuccess(r)
    \/ \E r \in ReqIds, e \in QuotaErrors : AttemptError(r, e)

SpecTier == InitTier /\ [][NextTier]_vars

\* C33: in every reachable state, every UsageLog row with status 200 and a
\* credential_id refers to a credential whose model_tier is compatible with
\* the required tier of the logged model: a log for a gemini-3-* model
\* refers to a tier-"3" credential, also after the credential has been
\* verified again or re-tiered.
C33_LoggedTier ==
    \A i \in 1..Len(logs) :
        (/\ logs[i].status_code = 200
         /\ logs[i].credential_id # 0
         /\ creds[logs[i].credential_id].present
         /\ GetRequiredTier(logs[i].model) = "3")
            => creds[logs[i].credential_id].model_tier = "3"

\* The same at the moment the row is written.
LoggedTierWhenWritten ==
    [][(Len(logs') = Len(logs) + 1
          /\ logs'[Len(logs')].status_code = 200
          /\ GetRequiredTier(logs'[Len(logs')].model) = "3")
         => creds[logs'[Len(logs')].credential_id].model_tier = "3"]_vars

\* ---- debits of a donation: an owner with bonus quota donates credentials,
\* a request meets an authentication failure with one of them, and the owner
\* takes the broken credential back or deletes it.

\* delete_my_inactive_credentials (DELETE /credentials/inactive/batch).
DeleteMyInactiveCredentials(u) ==
    /\ budget.ops > 0
    /\ creds' = [c \in CredIds |->
                    IF creds[c].present /\ creds[c].user_id = u
                           /\ ~creds[c].is_active
                    THEN NoCred ELSE creds[c]]
    /\ ev' = Ev("delete inactive", 0, u, 0, "", 200, "")
    /\ Spend("ops")
    /\ UNCHANGED <<calls, api_keys, key_calls, settings, users, logs, now, reqs>>

InitDebit ==
    /\ settings = BaseSettings
    /\ \E b \in {x \in DispatchBonus : x >= PoolReward("3")} :
           users = [u \in UserIds |->
                       IF u = DispatchUser
                       THEN [NewUser(u) EXCEPT !.bonus_quota = b]
                       ELSE NewUser(u)]
    /\ creds = [c \in CredIds |-> NoCred]
    /\ logs = <<>>
    /\ now = StartTime
    /\ reqs = [r \in ReqIds |-> IdleReq]
    /\ ev = NoEv
    /\ api_keys = {DefaultKey(u) : u \in UserIds}
    /\ key_calls = [k \in KeyCallIds |-> IdleKeyCall]
    /\ calls = [i \in CallIds |-> IdleCall]
    /\ budget = [ops |-> DebitOps, requests |-> DebitRequests, ticks |-> 0]

NextDebit ==
    \/ \E f \in PoolFiles, o \in {p \in ProbeOutcomes : p[1]} :
           UploadCredential(DispatchUser, f, TRUE, o)
    \/ \E c \in CredIds : UpdateMyCredential(DispatchUser, c, "false", "none")
    \/ \E c \in CredIds : DeleteMyCredential(DispatchUser, c)
    \/ DeleteMyInactiveCredentials(DispatchUser)
    \/ \E r \in ReqIds : NewRequest(r, DispatchUser, DispatchModel, "chat")
    \/ \E r \in ReqIds : RateCheck(r)
    \/ \E r \in ReqIds : Select(r)
    \/ \E r \in ReqIds : AttemptSuccess(r)
    \/ \E r \in ReqIds, e \in CredsErrors : AttemptError(r, e)

SpecDebit == InitDebit /\ [][NextDebit]_vars

\* Credential c is a donation that an authentication failure has disabled
\* (and whose reward handle_credential_failure has debited).
AutoDisabled(c) ==
    /\ creds[c].present /\ creds[c].is_public /\ ~creds[c].is_active
    /\ creds[c].failed_requests > 0
    /\ IsAuthError(creds[c].last_error)

\* The owner's quota columns.
QuotaOf(u) == <<users[u].daily_quota, users[u].bonus_quota>>

BatchDeleteDebitsNothing ==
    [][ev'.op = "delete inactive" => users' = users]_vars

\* ------------------------------------------- the chunks of one response

\* stream_generator_with_retry: the upstream stream of the current attempt
\* delivers a chunk, which is yielded to the client at once. chunks lists,
\* in order of delivery, the attempt (stream_retry) each chunk came from.
StreamChunk(r) ==
    /\ reqs[r].pc = "stream"
    /\ Len(reqs[r].chunks) < MaxChunks
    /\ reqs' = [reqs EXCEPT ![r].chunks = Append(@, reqs[r].stream_retry)]
    /\ ev' = Ev("chunk", r, reqs[r].user_id, reqs[r].credential,
                reqs[r].model, 200, "chunk")
    /\ UNCHANGED <<calls, api_keys, key_calls, settings, users, creds, logs, now, budget>>

InitChunks ==
    /\ InitStore
    /\ settings = BaseSettings
    /\ budget = [ops |-> ChunkOps, requests |-> ChunkRequests, ticks |-> 0]

NextChunks ==
    \/ \E f \in PoolFiles :
           UploadCredential(DispatchUser, f, FALSE, <<TRUE, "2.5">>)
    \/ \E r \in ReqIds : Receive(r, DispatchUser, DispatchModel, "chat", TRUE)
    \/ \E r \in ReqIds : RateCheck(r)
    \/ \E r \in ReqIds : Select(r)
    \/ \E r \in ReqIds : AttemptTokenFail(r)
    \/ \E r \in ReqIds : StreamOpen(r)
    \/ \E r \in ReqIds : StreamChunk(r)
    \/ \E r \in ReqIds : StreamSuccess(r)
    \/ \E r \in ReqIds, e \in StreamErrors : StreamError(r, e)
    \/ \E r \in ReqIds : StreamReselect(r)
    \/ \E r \in ReqIds, t \in BOOLEAN : StreamToken(r, t)

SpecChunks == InitChunks /\ [][NextChunks]_vars

\* C38: all the chunks delivered in one streaming chat-completions response
\* come from a single upstream attempt: after a chunk of one attempt has been
\* emitted, no chunk of a later attempt (another credential, answering from
\* the beginning) is appended to the same response.
C38_SingleAttemptChunks ==
    \A r \in ReqIds :
        \A i, j \in 1..Len(reqs[r].chunks) :
            reqs[r].chunks[i] = reqs[r].chunks[j]

\* What the generator does guarantee: the chunks of a response are in the
\* order of its attempts, and an attempt never resumes after a failover.
ChunksInAttemptOrder ==
    \A r \in ReqIds :
        \A i, j \in 1..Len(reqs[r].chunks) :
            i <= j => reqs[r].chunks[i] <= reqs[r].chunks[j]

\* ------------------------------------- the probes of the verification paths

\* What the upstream answers for one credential: whether get_access_token
\* yields a token, the HTTP status of the generateContent probe with each
\* model, and the account type detect_account_type reports.
ProbeStatuses == {200, 429, 403}
AccountTypes == {"unknown", "pro"}
Upstreams ==
    [token : BOOLEAN, flash : ProbeStatuses, preview : ProbeStatuses,
     pro : ProbeStatuses, account : AccountTypes]

\* resp.status_code == 200 or resp.status_code == 429
ProbeOk(status) == status = 200 \/ status = 429

\* The error_msg of a failed gemini-2.5-flash probe, as an outcome.
ProbeRefused(status) ==
    IF status \in {401, 403} THEN "invalid 403" ELSE "invalid 500"

\* upload_credentials: <<is_valid, model_tier>> of the file's credential.
UploadProbe(up) ==
    IF up.token /\ ProbeOk(up.flash)
    THEN <<TRUE, IF ProbeOk(up.preview) THEN "3" ELSE "2.5">>
    ELSE <<FALSE, "2.5">>

\* verify_my_credential: gemini-2.5-flash first, then gemini-3-pro-preview.
OwnerProbe(up) ==
    IF ~up.token THEN "no token"
    ELSE IF ProbeOk(up.flash)
         THEN IF ProbeOk(up.preview) THEN "valid 3" ELSE "valid 2.5"
         ELSE ProbeRefused(up.flash)

\* verify_credential (admin): the first probe is made with gemini-2.5-pro and
\* settles validity and tier "3" by itself; gemini-2.5-flash is probed only
\* when it fails.
AdminProbe(up) ==
    IF ~up.token THEN "no token"
    ELSE IF ProbeOk(up.pro) THEN "valid 3"
         ELSE IF ProbeOk(up.flash) THEN "valid 2.5"
              ELSE ProbeRefused(up.flash)

\* The row verify_credential writes: as Verified, and a probe answered with
\* 429 leaves its note in last_error.
AdminVerified(cred, up) ==
    LET row == Verified(cred, AdminProbe(up))
        exhausted == \/ up.pro = 429
                     \/ ~ProbeOk(up.pro) /\ up.flash = 429
    IN  IF up.token /\ exhausted
        THEN [row EXCEPT !.last_error = "peie yi yongjin (429)"]
        ELSE row

\* verify_credential (admin: POST /api/manage/credentials/{id}/verify).
VerifyCredential(c, up) ==
    /\ budget.ops > 0
    /\ c \in Present
    /\ creds' = [creds EXCEPT ![c] = AdminVerified(creds[c], up)]
    /\ ev' = Ev("admin verify", 0, AdminId, c, "", 200, AdminProbe(up))
    /\ Spend("ops")
    /\ UNCHANGED <<calls, api_keys, key_calls, settings, users, logs, now, reqs>>

\* The row verify_all_credentials writes for one credential.
AllVerified(cred, up) ==
    IF ~up.token
    THEN [cred EXCEPT !.is_active = FALSE]
    ELSE LET is_valid == ProbeOk(up.flash)
             supports_3 == is_valid /\ ProbeOk(up.preview)
             account_type == IF is_valid /\ cred.project_id # ""
                             THEN up.account ELSE "unknown"
         IN  [cred EXCEPT
                 !.is_active = is_valid,
                 !.model_tier = IF supports_3 THEN "3" ELSE "2.5",
                 !.last_error = IF account_type # "unknown"
                                THEN "account_type:pro" ELSE @]

\* verify_all_credentials (admin: POST /api/manage/credentials/verify-all):
\* every credential row is verified, each against its own upstream.
VerifyAllCredentials(ups) ==
    /\ budget.ops > 0
    /\ creds' = [c \in CredIds |->
                    IF c \in Present THEN AllVerified(creds[c], ups[c])
                    ELSE creds[c]]
    /\ ev' = Ev("verify all", 0, AdminId, 0, "", 200, "")
    /\ Spend("ops")
    /\ UNCHANGED <<calls, api_keys, key_calls, settings, users, logs, now, reqs>>

InitVerify ==
    /\ InitStore
    /\ settings = BaseSettings
    /\ budget = [ops |-> VerifyOps, requests |-> 0, ticks |-> 0]

NextVerify ==
    \/ \E f \in QuotaFiles, p \in BOOLEAN, up \in Upstreams :
           UploadCredential(DispatchUser, f, p, UploadProbe(up))
    \/ \E c \in CredIds, up \in Upstreams :
           VerifyMyCredential(DispatchUser, c, OwnerProbe(up))
    \/ \E c \in CredIds, up \in Upstreams : VerifyCredential(c, up)
    \/ \E ups \in [Present -> Upstreams] : VerifyAllCredentials(ups)

SpecVerify == InitVerify /\ [][NextVerify]_vars

\* What a verification against upstream up is to leave in row c: valid
\* exactly if the gemini-2.5-flash probe is answered with 200 or 429, tier
\* "3" exactly if valid and the gemini-3-pro-preview probe is answered with
\* 200 or 429, tier "2.5" otherwise.
ProbesDecide(c, up) ==
    LET valid == up.token /\ ProbeOk(up.flash)
    IN  /\ creds'[c].present
        /\ creds'[c].is_active = valid
        /\ creds'[c].model_tier =
               IF valid /\ ProbeOk(up.preview) THEN "3" ELSE "2.5"

\* The upload stored a new row.
Stored == ev'.op = "upload" /\ ev'.cred \in CredIds

\* C34: on every verification path (upload, owner verify, admin verify,
\* admin verify-all) the credential is marked valid iff the gemini-2.5-flash
\* probe returns 200 or 429, and gets tier "3" iff it is valid and the
\* gemini-3-pro-preview probe returns 200 or 429; otherwise tier "2.5".
C34_ProbesDecide ==
    [][/\ \A f \in QuotaFiles, p \in BOOLEAN, up \in Upstreams :
              UploadCredential(DispatchUser, f, p, UploadProbe(up)) /\ Stored
                  => ProbesDecide(ev'.cred, up)
       /\ \A c \in CredIds, up \in Upstreams :
              VerifyMyCredential(DispatchUser, c, OwnerProbe(up))
                  => ProbesDecide(c, up)
       /\ \A c \in CredIds, up \in Upstreams :
              VerifyCredential(c, up) => ProbesDecide(c, up)
       /\ \A ups \in [Present -> Upstreams] :
              VerifyAllCredentials(ups)
                  => \A c \in Present : ProbesDecide(c, ups[c])]_vars

\* The upload path follows the two probes.
UploadProbesDecide ==
    [][\A f \in QuotaFiles, p \in BOOLEAN, up \in Upstreams :
          UploadCredential(DispatchUser, f, p, UploadProbe(up)) /\ Stored
              => ProbesDecide(ev'.cred, up)]_vars

\* So do the owner's verification and the verification of all credentials
\* whenever a token was obtained (without one the row keeps its tier).
TokenProbesDecide ==
    [][/\ \A c \in CredIds, up \in Upstreams :
              VerifyMyCredential(DispatchUser, c, OwnerProbe(up)) /\ up.token
                  => ProbesDecide(c, up)
       /\ \A ups \in [Present -> Upstreams] :
              VerifyAllCredentials(ups)
                  => \A c \in Present :
                         ups[c].token => ProbesDecide(c, ups[c])]_vars

\* The administrator's verification of one credential follows the two probes.
AdminProbesDecide ==
    [][\A c \in CredIds, up \in Upstreams :
          VerifyCredential(c, up) /\ up.token => ProbesDecide(c, up)]_vars

\* --------------------------------------- chat requests in flight together
\* Each request runs chat_completions in its own session (get_db); between
\* two awaited database statements of one request the statements of another
\* may run. The actions below are those statements, for non-streaming calls.

\* get_user_from_api_key and the per-minute check pass (a request they
\* refuse writes nothing) and check_user_has_public_creds is read.
CallStart(i, u, m) ==
    /\ calls[i].pc = "idle"
    /\ budget.requests > 0
    /\ AuthDecision(u, m) = "ok"
    /\ ~RateLimited(u, CheckUserHasPublicCreds(u))
    /\ calls' = [calls EXCEPT ![i] =
           [IdleCall EXCEPT !.pc = "query", !.user_id = u, !.model = m,
                            !.user_has_public = CheckUserHasPublicCreds(u)]]
    /\ ev' = Ev("auth", i, u, 0, m, 0, "ok")
    /\ Spend("requests")
    /\ UNCHANGED <<api_keys, key_calls, settings, users, creds, logs, now, reqs>>

\* chat_completions: "continue" of the retry loop.
CallContinue(i, error) ==
    [calls EXCEPT ![i].pc = "query", ![i].retry_attempt = @ + 1,
                  ![i].last_error = error]

\* get_available_credential: the SELECT of the ordered candidates and the
\* choice among them; the session now holds the chosen row as it was read.
CallQuery(i) ==
    /\ calls[i].pc = "query"
    /\ LET u == calls[i].user_id
           m == calls[i].model
           S == Selectable(u, calls[i].user_has_public, m, calls[i].tried)
       IN  IF S = {}
           THEN /\ calls' = [calls EXCEPT ![i] = IdleCall]
                /\ ev' = Ev("select", i, u, 0, m, 503, "none")
           ELSE \E c \in S :
                /\ calls' = [calls EXCEPT
                        ![i].pc = "mark", ![i].credential = c,
                        ![i].loaded_total = creds[c].total_requests]
                /\ ev' = Ev("query", i, u, c, m, 0, "chosen")
    /\ UNCHANGED <<api_keys, key_calls, settings, users, creds, logs, now, reqs,
                   budget>>

\* get_available_credential: last_used_at, total_requests (the attribute
\* read by the SELECT, plus one) and the group's last_used_* are written and
\* committed; the credential is returned.
CallMark(i) ==
    /\ calls[i].pc = "mark"
    /\ LET c == calls[i].credential
           held == [creds[c] EXCEPT !.total_requests = calls[i].loaded_total]
       IN  /\ creds' = [creds EXCEPT ![c] = MarkUsed(held, calls[i].model)]
           /\ calls' = [calls EXCEPT ![i].pc = "call",
                                     ![i].loaded_total = @ + 1,
                                     ![i].selected_at = now,
                                     ![i].tried = @ \cup {c}]
           /\ ev' = Ev("select", i, calls[i].user_id, c, calls[i].model, 0, "ok")
    /\ UNCHANGED <<api_keys, key_calls, settings, users, logs, now, reqs, budget>>

\* log_usage: the UsageLog row, then total_requests (the session's
\* attribute plus one) and last_used_at; the request ends.
CallLog(i, status_code) ==
    LET c == calls[i].credential
    IN  /\ logs' = Append(logs,
               [user_id |-> calls[i].user_id, credential_id |-> c,
                model |-> calls[i].model, status_code |-> status_code,
                created_at |-> now])
        /\ creds' = [creds EXCEPT
               ![c].total_requests = calls[i].loaded_total + 1,
               ![c].last_used_at = now]
        /\ calls' = [calls EXCEPT ![i] = IdleCall]

\* The upstream call answers 200.
CallSuccess(i) ==
    /\ calls[i].pc = "call"
    /\ CallLog(i, 200)
    /\ ev' = Ev("attempt", i, calls[i].user_id, calls[i].credential,
                calls[i].model, 200, "ok")
    /\ UNCHANGED <<api_keys, key_calls, settings, users, now, reqs, budget>>

\* get_access_token returns None: mark_credential_error, then "continue".
CallTokenFail(i) ==
    /\ calls[i].pc = "call"
    /\ creds' = MarkCredentialError(creds, calls[i].credential,
                                    TokenRefreshFailed)
    /\ IF calls[i].retry_attempt + 1 > settings.error_retry_count
       THEN /\ calls' = [calls EXCEPT ![i] = IdleCall]
            /\ ev' = Ev("attempt", i, calls[i].user_id, calls[i].credential,
                        calls[i].model, 503, "exhausted")
       ELSE /\ calls' = CallContinue(i, TokenRefreshFailed)
            /\ ev' = Ev("attempt", i, calls[i].user_id, calls[i].credential,
                        calls[i].model, 0, "retry")
    /\ UNCHANGED <<api_keys, key_calls, settings, users, logs, now, reqs, budget>>

\* The upstream call fails with error text e: handle_credential_failure
\* begins, mark_credential_error commits.
CallError(i, e) ==
    /\ calls[i].pc = "call"
    /\ creds' = MarkCredentialError(creds, calls[i].credential, e)
    /\ calls' = [calls EXCEPT
           ![i].pc = IF IsAuthError(e) THEN "reread" ELSE "after",
           ![i].last_error = e]
    /\ ev' = [Ev("mark", i, calls[i].user_id, calls[i].credential,
                 calls[i].model, 0, "marked") EXCEPT !.error = e]
    /\ UNCHANGED <<api_keys, key_calls, settings, users, logs, now, reqs, budget>>

\* handle_credential_failure: the credential row is selected again and
\* "cred and cred.is_active" is tested.
CallReread(i) ==
    /\ calls[i].pc = "reread"
    /\ LET cred == creds[calls[i].credential]
       IN  calls' = [calls EXCEPT
               ![i].pc = IF ~(cred.present /\ cred.is_active) THEN "after"
                         ELSE IF cred.is_public /\ cred.user_id # 0
                              THEN "read user" ELSE "disable",
               ![i].seen_public = cred.is_public /\ cred.user_id # 0,
               ![i].seen_tier = cred.model_tier,
               ![i].seen_owner = cred.user_id]
    /\ ev' = Ev("reread", i, calls[i].user_id, calls[i].credential,
                calls[i].model, 0, "")
    /\ UNCHANGED <<api_keys, key_calls, settings, users, creds, logs, now, reqs,
                   budget>>

\* handle_credential_failure: the owner's row is selected.
CallReadUser(i) ==
    /\ calls[i].pc = "read user"
    /\ calls' = [calls EXCEPT
           ![i].pc = "disable",
           ![i].seen_bonus = users[calls[i].seen_owner].bonus_quota]
    /\ ev' = Ev("read user", i, calls[i].user_id, calls[i].credential,
                calls[i].model, 0, "")
    /\ UNCHANGED <<api_keys, key_calls, settings, users, creds, logs, now, reqs,
                   budget>>

\* handle_credential_failure: is_active = False and the owner's bonus_quota
\* (what was read, less the reward, not below 0) are committed.
CallDisable(i) ==
    /\ calls[i].pc = "disable"
    /\ creds' = [creds EXCEPT ![calls[i].credential].is_active = FALSE]
    /\ users' = IF calls[i].seen_public
                THEN [users EXCEPT ![calls[i].seen_owner].bonus_quota =
                         Max(0, calls[i].seen_bonus
                                    - PoolReward(calls[i].seen_tier))]
                ELSE users
    /\ calls' = [calls EXCEPT ![i].pc = "after"]
    /\ ev' = Ev("disable", i, calls[i].user_id, calls[i].credential,
                calls[i].model, 0,
                IF calls[i].seen_public THEN "debited" ELSE "")
    /\ UNCHANGED <<api_keys, key_calls, settings, logs, now, reqs, budget>>

\* chat_completions after handle_credential_failure: the retry test, then
\* "continue", or log_usage(500) and the 500 answer.
CallAfter(i) ==
    /\ calls[i].pc = "after"
    /\ LET e == calls[i].last_error
       IN  IF ShouldRetry(e)
               /\ calls[i].retry_attempt < settings.error_retry_count
           THEN /\ calls' = CallContinue(i, e)
                /\ ev' = [Ev("attempt", i, calls[i].user_id,
                             calls[i].credential, calls[i].model, 0, "retry")
                             EXCEPT !.error = e]
                /\ UNCHANGED <<creds, logs>>
           ELSE /\ CallLog(i, 500)
                /\ ev' = [Ev("attempt", i, calls[i].user_id,
                             calls[i].credential, calls[i].model, 500, "error")
                             EXCEPT !.error = e]
    /\ UNCHANGED <<api_keys, key_calls, settings, users, now, reqs, budget>>

\* ---- two chat requests of one user race for the donated credentials.

RaceErrors ==
    {"API Error 403: PERMISSION_DENIED", "API Error 503: UNAVAILABLE"}

RaceBonus == 2 * (BaseSettings.quota_flash + BaseSettings.quota_25pro) + 1

InitRace ==
    /\ users = [u \in UserIds |->
                   IF u = DispatchUser
                   THEN [NewUser(u) EXCEPT !.bonus_quota = RaceBonus,
                                           !.daily_quota = 5]
                   ELSE NewUser(u)]
    /\ creds = [c \in CredIds |-> NoCred]
    /\ logs = <<>>
    /\ now = StartTime
    /\ reqs = [r \in ReqIds |-> IdleReq]
    /\ ev = NoEv
    /\ api_keys = {DefaultKey(u) : u \in UserIds}
    /\ key_calls = [k \in KeyCallIds |-> IdleKeyCall]
    /\ calls = [i \in CallIds |-> IdleCall]
    /\ settings = [BaseSettings EXCEPT !.cd_flash = SelectCooldown,
                                       !.base_rpm = 5, !.contributor_rpm = 5]
    /\ budget = [ops |-> RaceOps, requests |-> RaceRequests, ticks |-> 0]

NextRace ==
    \/ /\ budget.requests = RaceRequests
       /\ \E f \in PoolFiles :
              UploadCredential(DispatchUser, f, TRUE, <<TRUE, "2.5">>)
    \/ \E i \in CallIds : CallStart(i, DispatchUser, DispatchModel)
    \/ \E i \in CallIds : CallQuery(i)
    \/ \E i \in CallIds : CallMark(i)
    \/ \E i \in CallIds : CallSuccess(i)
    \/ \E i \in CallIds : CallTokenFail(i)
    \/ \E i \in CallIds, e \in RaceErrors : CallError(i, e)
    \/ \E i \in CallIds : CallReread(i)
    \/ \E i \in CallIds : CallReadUser(i)
    \/ \E i \in CallIds : CallDisable(i)
    \/ \E i \in CallIds : CallAfter(i)

SpecRace == InitRace /\ [][NextRace]_vars

\* ------------------------------------ properties of concurrent requests

\* Call i has been handed its credential by get_available_credential and is
\* using it.
Holds(i) == calls[i].pc \in {"call", "reread", "read user", "disable", "after"}

\* Calls i and j were handed the same credential for the same model group
\* less than the group's cooldown apart.
SameWithinCd(i, j) ==
    LET g == GetModelGroup(calls[i].model)
        d == calls[i].selected_at - calls[j].selected_at
    IN  /\ Holds(i) /\ Holds(j)
        /\ calls[i].credential = calls[j].credential
        /\ GetModelGroup(calls[j].model) = g
        /\ d < GetCdSeconds(g) /\ 0 - d < GetCdSeconds(g)

\* C31: no two concurrent selections return the same credential for the
\* same model group within the group's cooldown of each other, however the
\* SELECT and the last-used update of the two requests interleave.
C31_NoSharedSelection ==
    \A i, j \in CallIds : i # j => ~SameWithinCd(i, j)

\* Two first attempts hold the same credential while another donated
\* credential has never been used: the second SELECT ran before the first
\* request's update was committed.
StaleSelection ==
    \E i, j \in CallIds :
        /\ i # j /\ SameWithinCd(i, j)
        /\ calls[i].retry_attempt = 0 /\ calls[j].retry_attempt = 0
        /\ \E c \in Present :
               /\ creds[c].is_active /\ creds[c].is_public
               /\ creds[c].last_used_at = NULL

AuthFailureDisables ==
    [][\A i \in CallIds :
          calls[i].pc \in {"reread", "read user", "disable"}
              /\ calls'[i].pc = "after"
              => ~creds'[calls[i].credential].is_active]_vars

\* No request is in flight.
Quiescent ==
    /\ \A i \in CallIds : calls[i].pc = "idle"
    /\ \A r \in ReqIds : reqs[r].pc = "idle"

\* C32: in every quiescent state every credential has
\* failed_requests <= total_requests.
C32_FailedWithinTotal ==
    Quiescent => \A c \in CredIds :
                     creds[c].failed_requests <= creds[c].total_requests

====
